---- MODULE Spec2Model ----
(***************************************************************************)
(* boostburn: incremental ingestion of Bedrock usage logs into a daily     *)
(* report.  The module models the LangGraph workflow of                    *)
(* src/boostburn/graph/workflow.py (one action per node), the manifest     *)
(* store of src/boostburn/state/manifest.py, the Metrics aggregate of      *)
(* src/boostburn/models.py and the snapshot store of                       *)
(* src/boostburn/adapters/report_store.py.                                 *)
(*                                                                         *)
(* Time is counted in ticks, TicksPerHour ticks to the hour, from          *)
(* 00:00 UTC of report date 0.  An hour is named by its index (hour 24 is  *)
(* 00:00 of report date 1); a "%Y-%m-%dT%H" string is its hour index.      *)
(* An Optional value is a set with at most one element (None is {}).       *)
(***************************************************************************)
EXTENDS Integers, Sequences, FiniteSets, TLC

-----------------------------------------------------------------------------
(* Bounds of the model *)

TicksPerHour == 2
StartHour == 24
SpanHours == 3
MaxEtag == 2
MaxOps == 3
MaxRuns == 3
LookbackHours == 2
MaxUsages == 2

(* Program constants *)

HoursPerDay == 24
SNAPSHOT_SCHEMA_VERSION == 1
CostTolerance == 100

-----------------------------------------------------------------------------
(* Generic helpers *)

None == {}

Some(x) == {x}

TheOne(opt) == CHOOSE x \in opt : TRUE

Max(a, b) == IF a >= b THEN a ELSE b

Min(a, b) == IF a <= b THEN a ELSE b

Range(s) == {s[i] : i \in DOMAIN s}

-----------------------------------------------------------------------------
(* Time *)

NowInit == StartHour * TicksPerHour

MaxNow == (StartHour + SpanHours) * TicksPerHour

\* datetime.replace(minute=0, second=0, microsecond=0) followed by
\* strftime("%Y-%m-%dT%H"): the hour a tick lies in
HourOf(t) == t \div TicksPerHour

\* _parse_datehour: the first instant of the named hour
ParseDatehour(h) == h * TicksPerHour

\* now.date(): the report date a tick lies in
DateOf(t) == HourOf(t) \div HoursPerDay

\* datetime.fromisoformat(report_date) at UTC
ReportStart(d) == d * HoursPerDay * TicksPerHour

\* report_start + timedelta(days=1)
ReportEnd(d) == ReportStart(d) + HoursPerDay * TicksPerHour

\* (report_end - 1 second).replace(minute=0, ...): the last hour of the day
EndHour(d) == HourOf(ReportEnd(d) - 1)

Days == {0, 1}

-----------------------------------------------------------------------------
(* The configuration and the log objects the buckets may receive *)

\* the regions a configuration file may name; each region has its own bucket
AllRegions == {"r1", "r2"}

\* the object keys, in the order a listing returns them
KeySeq == <<"k1", "k2", "k3", "k4", "k5", "k6", "k7", "k8">>

Keys == Range(KeySeq)

\* the keys of well-formed metadata files
LogKeys == {"k1", "k2", "k3"}

\* the region (bucket and key path component) of each object key
KeyRegion ==
    [k1 |-> "r1", k2 |-> "r1", k3 |-> "r2", k4 |-> "r1", k5 |-> "r1", k6 |-> "r1",
     k7 |-> "r1", k8 |-> "r1"]

\* the hour of the "%Y/%m/%d/%H" component of each object key
KeyHour ==
    [k1 |-> 24, k2 |-> 25, k3 |-> 24, k4 |-> 24, k5 |-> 24, k6 |-> 24, k7 |-> 24, k8 |-> 24]

\* The basename of each key, as the sequence of its parts: a part is the
\* timestamp "ts" (digits, T, digits, Z), a lowercase hexadecimal hash "hex",
\* or literal text.
KeyBasename ==
    [k1 |-> <<"ts", "_", "hex", ".json", ".gz">>,
     k2 |-> <<"ts", "_", "hex", ".json">>,
     k3 |-> <<"ts", "_", "hex", ".json", ".gz">>,
     k4 |-> <<"ts", "_", "hex", ".json", ".gz">>,
     k5 |-> <<"uuid", "_input.json", ".gz">>,
     k6 |-> <<"ts", "_", "hex", "_output.json", ".gz">>,
     k7 |-> <<"amazon-bedrock-logs-permission-check", ".json">>,
     k8 |-> <<"ts", "_", "hex", ".jsonl">>]

OutOfWindowTs == ReportEnd(1) + 1

\* the caller identity of the records of each object
KeyArn == [k \in Keys |-> "arn:" \o k]

\* A model identifier is held as the sequence of its lexical tokens: ":", "/"
\* and "." are tokens of their own, and every other token is a maximal stretch
\* of characters free of the three.
Positions(s, tok) == {i \in 1..Len(s) : s[i] = tok}

\* the position of the n-th tok of s, 0 when s holds fewer
NthPosition(s, tok, n) ==
    LET ps == Positions(s, tok) IN
    IF Cardinality(ps) < n \/ n = 0 THEN 0
    ELSE CHOOSE q \in ps : Cardinality({r \in ps : r <= q}) = n

\* value.split(tok, n)[-1]
AfterSplits(s, tok, n) ==
    LET cut == NthPosition(s, tok, Min(n, Cardinality(Positions(s, tok))))
    IN  SubSeq(s, cut + 1, Len(s))

\* value.split(tok)[-1]
AfterLast(s, tok) == AfterSplits(s, tok, Len(s))

\* value.rsplit(tok, 1)[0]
BeforeLast(s, tok) ==
    LET last == NthPosition(s, tok, Cardinality(Positions(s, tok)))
    IN  IF last = 0 THEN s ELSE SubSeq(s, 1, last - 1)

\* "<name>:0", a model identifier with its version suffix
Versioned(name) == name \o <<":", "0">>

\* "arn:aws:bedrock:r1:acct:<resource_type>/<name>"
Arn(resource_type, name) ==
    <<"arn", ":", "aws", ":", "bedrock", ":", "r1", ":", "acct", ":", resource_type, "/">>
        \o name

\* The timestamp field of a record, as JSON gives it: absent, a number, or
\* a string, whose text is the ISO-8601 form of an instant or something else.
NoTimestamp == [json |-> "absent"]

NumberTimestamp == [json |-> "number"]

IsoTimestamp(t) == [json |-> "string", text |-> <<"iso", t>>]

OtherText == [json |-> "string", text |-> <<"yesterday">>]

EmptyText == [json |-> "string", text |-> << >>]

\* the timestamp field as the records of the objects carry it
Timestamp(ts) == IF ts = None THEN NoTimestamp ELSE IsoTimestamp(TheOne(ts))

\* A record of a metadata file.  inputTokenCount and outputTokenCount are the
\* structured fields input.inputTokenCount and output.outputTokenCount,
\* Optional; usage is output.outputBodyJson.usage, Optional, a mapping from
\* the keys input_tokens and output_tokens to counts.
RawRec(timestamp, arn, inputTokenCount, outputTokenCount, usage) ==
    [timestamp |-> timestamp, region |-> "", arn |-> arn, modelId |-> Versioned(<<"m1">>),
     inputTokenCount |-> inputTokenCount, outputTokenCount |-> outputTokenCount,
     usage |-> usage]

\* a record carrying both structured counts
Rec(ts, arn, inTok, outTok) == RawRec(Timestamp(ts), arn, Some(inTok), Some(outTok), None)

\* The records of each well-formed object.  Every object carries one in-day
\* record under an identity of its own, so the by_identity dimension tells
\* the objects apart; k2 also carries a record dated outside the report days
\* and a record without a timestamp.
KeyRecords ==
    [k1 |-> << Rec(Some(ParseDatehour(24)), KeyArn["k1"], 1, 2) >>,
     k2 |-> << Rec(Some(ParseDatehour(25)), KeyArn["k2"], 4, 8),
               Rec(Some(OutOfWindowTs), KeyArn["k2"], 64, 64),
               Rec(None, KeyArn["k2"], 64, 64) >>,
     k3 |-> << Rec(Some(ParseDatehour(24)), KeyArn["k3"], 16, 32) >>]

\* a line of an object that is a JSON document, and one that is not
Line(record) == [parses |-> TRUE, record |-> record]

Malformed == [parses |-> FALSE]

\* The content of each object, one JSON document per line.  k4 is a metadata
\* file with a broken line between two records; k5 to k8 are not metadata
\* files.
KeyText ==
    [k \in Keys |->
        IF k \in LogKeys THEN [i \in DOMAIN KeyRecords[k] |-> Line(KeyRecords[k][i])]
        ELSE IF k = "k4"
        THEN << Line(Rec(Some(ParseDatehour(24)), KeyArn[k], 1, 2)),
                Malformed,
                Line(Rec(Some(ParseDatehour(24)), KeyArn[k], 4, 8)) >>
        ELSE << Line(Rec(Some(ParseDatehour(24)), KeyArn[k], 128, 128)) >>]

-----------------------------------------------------------------------------
(* models.py: TokenStats and Metrics *)

ZeroStats == [input_tokens |-> 0, output_tokens |-> 0, total_tokens |-> 0, cost_usd |-> 0]

\* add with "self.total_tokens += input_tokens" only
StatsAddInputOnlyTotal(s, inTok, outTok, cost) ==
    [input_tokens |-> s.input_tokens + inTok,
     output_tokens |-> s.output_tokens + outTok,
     total_tokens |-> s.total_tokens + inTok,
     cost_usd |-> s.cost_usd + cost]

\* TokenStats.add
StatsAdd(s, inTok, outTok, cost) ==
    [input_tokens |-> s.input_tokens + inTok,
     output_tokens |-> s.output_tokens + outTok,
     total_tokens |-> s.total_tokens + (inTok + outTok),
     cost_usd |-> s.cost_usd + cost]

EmptyMap == [k \in {} |-> ZeroStats]

EmptyMetrics ==
    [totals |-> ZeroStats, by_region |-> EmptyMap, by_identity |-> EmptyMap,
     by_model |-> EmptyMap, by_usage_key |-> EmptyMap, model_id_map |-> [k \in {} |-> << >>]]

\* "map[key] = TokenStats()" in place of setdefault: the entry restarts at
\* every call
MapAddOverwriting(map, key, inTok, outTok, cost) ==
    [k \in DOMAIN map \cup {key} |->
        IF k = key THEN StatsAdd(ZeroStats, inTok, outTok, cost) ELSE map[k]]

\* dict.setdefault(key, TokenStats()).add(...)
MapAdd(map, key, inTok, outTok, cost) ==
    [k \in DOMAIN map \cup {key} |->
        IF k = key
        THEN StatsAdd(IF key \in DOMAIN map THEN map[key] ELSE ZeroStats, inTok, outTok, cost)
        ELSE map[k]]

\* add_usage with "self.model_id_map[model_id] = original_model_id" under
\* "if original_model_id" only: the last original identifier wins
AddUsageLastOriginalWins(m, region, identity, model_id, inTok, outTok, cost, original_model_id) ==
    [totals |-> StatsAdd(m.totals, inTok, outTok, cost),
     by_region |-> MapAdd(m.by_region, region, inTok, outTok, cost),
     by_identity |-> MapAdd(m.by_identity, identity, inTok, outTok, cost),
     by_model |-> MapAdd(m.by_model, model_id, inTok, outTok, cost),
     by_usage_key |-> MapAdd(m.by_usage_key, <<region, identity, model_id>>, inTok, outTok, 0),
     model_id_map |->
        IF original_model_id # << >>
        THEN [k \in DOMAIN m.model_id_map \cup {model_id} |->
                IF k = model_id THEN original_model_id ELSE m.model_id_map[k]]
        ELSE m.model_id_map]

\* Metrics.add_usage
AddUsage(m, region, identity, model_id, inTok, outTok, cost, original_model_id) ==
    [totals |-> StatsAdd(m.totals, inTok, outTok, cost),
     by_region |-> MapAdd(m.by_region, region, inTok, outTok, cost),
     by_identity |-> MapAdd(m.by_identity, identity, inTok, outTok, cost),
     by_model |-> MapAdd(m.by_model, model_id, inTok, outTok, cost),
     by_usage_key |-> MapAdd(m.by_usage_key, <<region, identity, model_id>>, inTok, outTok, 0),
     model_id_map |->
        IF original_model_id # << >> /\ model_id \notin DOMAIN m.model_id_map
        THEN [k \in DOMAIN m.model_id_map \cup {model_id} |->
                IF k = model_id THEN original_model_id ELSE m.model_id_map[k]]
        ELSE m.model_id_map]

\* the loop with "stats.cost_usd" in place of the literal 0.0
MergeMapSummingCosts(mine, theirs) ==
    [k \in DOMAIN mine \cup DOMAIN theirs |->
        IF k \in DOMAIN theirs
        THEN StatsAdd(IF k \in DOMAIN mine THEN mine[k] ELSE ZeroStats,
                      theirs[k].input_tokens, theirs[k].output_tokens, theirs[k].cost_usd)
        ELSE mine[k]]

\* the loop with "if key not in self.<map>: self.<map>[key] = stats" only:
\* a key both sides hold keeps self's value
MergeMapKeepMine(mine, theirs) ==
    [k \in DOMAIN mine \cup DOMAIN theirs |->
        IF k \in DOMAIN mine THEN mine[k]
        ELSE StatsAdd(ZeroStats, theirs[k].input_tokens, theirs[k].output_tokens, 0)]

\* one "for key, stats in other.<map>.items()" loop of Metrics.merge
MergeMap(mine, theirs) ==
    [k \in DOMAIN mine \cup DOMAIN theirs |->
        IF k \in DOMAIN theirs
        THEN StatsAdd(IF k \in DOMAIN mine THEN mine[k] ELSE ZeroStats,
                      theirs[k].input_tokens, theirs[k].output_tokens, 0)
        ELSE mine[k]]

\* merge without the by_usage_key loop
MergeWithoutUsageKeys(self, other) ==
    [totals |-> StatsAdd(self.totals, other.totals.input_tokens, other.totals.output_tokens, 0),
     by_region |-> MergeMap(self.by_region, other.by_region),
     by_identity |-> MergeMap(self.by_identity, other.by_identity),
     by_model |-> MergeMap(self.by_model, other.by_model),
     by_usage_key |-> self.by_usage_key,
     model_id_map |->
        [k \in DOMAIN self.model_id_map \cup DOMAIN other.model_id_map |->
            IF k \in DOMAIN self.model_id_map THEN self.model_id_map[k]
            ELSE other.model_id_map[k]]]

\* Metrics.merge
Merge(self, other) ==
    [totals |-> StatsAdd(self.totals, other.totals.input_tokens, other.totals.output_tokens, 0),
     by_region |-> MergeMap(self.by_region, other.by_region),
     by_identity |-> MergeMap(self.by_identity, other.by_identity),
     by_model |-> MergeMap(self.by_model, other.by_model),
     by_usage_key |-> MergeMap(self.by_usage_key, other.by_usage_key),
     model_id_map |->
        [k \in DOMAIN self.model_id_map \cup DOMAIN other.model_id_map |->
            IF k \in DOMAIN self.model_id_map THEN self.model_id_map[k]
            ELSE other.model_id_map[k]]]

-----------------------------------------------------------------------------
(* state/manifest.py: the per-region manifest *)

NoProcessed == [k \in {} |-> [etag |-> 0, seen_at |-> NoTimestamp]]

\* ManifestState(lookback_hours=...): the manifest of a bucket that has none
NewManifest(lookback) ==
    [last_datehour |-> None, processed |-> NoProcessed, lookback_hours |-> lookback]

\* load_manifest: the stored document, or a fresh state when there is none
LoadManifest(stored, lookback) ==
    IF stored = None THEN NewManifest(lookback) ELSE TheOne(stored)

\* The instant an entry's seen_at names: None when the value is missing or
\* empty ("if not seen_at") or when datetime.fromisoformat rejects it
SeenAt(entry) ==
    LET value == entry.seen_at IN
    IF value.json # "string" THEN None
    ELSE IF value.text = << >> THEN None
    ELSE IF value.text[1] = "iso" THEN Some(value.text[2])
    ELSE None

PruneManifestStrictlyAfter(manifest, t) ==
    LET cutoff == t - manifest.lookback_hours * TicksPerHour
        kept == {k \in DOMAIN manifest.processed :
                    /\ SeenAt(manifest.processed[k]) # None
                    /\ TheOne(SeenAt(manifest.processed[k])) > cutoff}
    IN  [manifest EXCEPT !.processed = [k \in kept |-> manifest.processed[k]]]

\* prune_manifest: keep the entries seen at or after now - lookback_hours;
\* an entry without a usable seen_at is left out
PruneManifest(manifest, t) ==
    LET cutoff == t - manifest.lookback_hours * TicksPerHour
        kept == {k \in DOMAIN manifest.processed :
                    /\ SeenAt(manifest.processed[k]) # None
                    /\ TheOne(SeenAt(manifest.processed[k])) >= cutoff}
    IN  [manifest EXCEPT !.processed = [k \in kept |-> manifest.processed[k]]]

\* record_processed: seen_at is written as seen_at.isoformat()
RecordProcessed(manifest, key, etag, seen_at) ==
    [manifest EXCEPT !.processed =
        [k \in DOMAIN manifest.processed \cup {key} |->
            IF k = key THEN [etag |-> etag, seen_at |-> IsoTimestamp(seen_at)]
            ELSE manifest.processed[k]]]

\* update_last_datehour without the "if datehour" test
UpdateLastDatehourUnguarded(manifest, datehour) ==
    [manifest EXCEPT !.last_datehour = datehour]

\* update_last_datehour: a None datehour leaves the checkpoint alone
UpdateLastDatehour(manifest, datehour) ==
    IF datehour # None THEN [manifest EXCEPT !.last_datehour = datehour] ELSE manifest

-----------------------------------------------------------------------------
(* reporting.py / report_store.py: the daily snapshot document *)

\* _usage_key_map_to_list: one entry per (region, identity, model) triple
UsageKeyMapToList(by_usage_key) ==
    {[region |-> k[1], identity |-> k[2], model_id |-> k[3], stats |-> by_usage_key[k]] :
        k \in DOMAIN by_usage_key}

\* _metrics_to_dict: the normalized-to-original model map is not written
MetricsToDict(m) ==
    [totals |-> m.totals, by_region |-> m.by_region, by_model |-> m.by_model,
     by_identity |-> m.by_identity, by_usage_key |-> UsageKeyMapToList(m.by_usage_key)]

\* build_report_snapshot
BuildReportSnapshot(report_date, metrics, warnings, stats) ==
    [schema_version |-> SNAPSHOT_SCHEMA_VERSION, report_date |-> report_date,
     metrics |-> MetricsToDict(metrics), warnings |-> warnings, stats |-> stats]

\* What yaml.safe_load makes of a file that write_snapshot did not leave as
\* it is read: text that is not YAML raises, text that is YAML need not be a
\* mapping (a file holding plain words loads as one string).
Unparsable == [yaml |-> "unparsable"]

Scalar == [yaml |-> "scalar"]

\* the value is a dict
IsMapping(value) == "yaml" \notin DOMAIN value

\* dict.get(key, default)
Get(dict, key, default) == IF key \in DOMAIN dict THEN dict[key] ELSE default

\* ReportStore.read_snapshot: no file, or a file that cannot be loaded
ReadSnapshot(stored) ==
    IF stored = None \/ TheOne(stored) = Unparsable THEN None ELSE stored

\* the keys of the metrics section, in the order they are written
MetricsSections == <<"totals", "by_region", "by_model", "by_identity", "by_usage_key">>

\* load_metrics_from_snapshot: a missing section loads as empty; entries
\* lacking a region, identity or model id are skipped; the model map starts
\* empty; None when the metrics section is not a mapping
LoadMetricsFromSnapshot(snapshot) ==
    LET d == snapshot.metrics
        entries == {e \in Get(d, "by_usage_key", {}) :
                        e.region # "" /\ e.identity # "" /\ e.model_id # << >>}
        keyOf(e) == <<e.region, e.identity, e.model_id>>
    IN  IF ~IsMapping(d) THEN None
        ELSE Some([totals |-> Get(d, "totals", ZeroStats),
                   by_region |-> Get(d, "by_region", EmptyMap),
                   by_identity |-> Get(d, "by_identity", EmptyMap),
                   by_model |-> Get(d, "by_model", EmptyMap),
                   by_usage_key |-> [k \in {keyOf(e) : e \in entries} |->
                                       (CHOOSE e \in entries : keyOf(e) = k).stats],
                   model_id_map |-> [k \in {} |-> << >>]])

-----------------------------------------------------------------------------
(* ingest/bedrock_parser.py *)

\* the scopes _INFERENCE_PROFILE_PATTERN names
InferenceProfileScopes == {"us", "eu", "global", "apac"}

\* _INFERENCE_PROFILE_PATTERN.match(model_id): the position group(1) starts
\* at, 0 when the pattern does not match.  The pattern is
\* ^arn:aws:bedrock:[^:]+:[^:]+:inference-profile/((us|eu|global|apac)\..+)$
InferenceProfileMatch(model_id) ==
    LET c4 == NthPosition(model_id, ":", 4)
        c5 == NthPosition(model_id, ":", 5)
    IN  IF /\ c5 # 0
           /\ Len(model_id) >= c5 + 5
           /\ SubSeq(model_id, 1, 6) = <<"arn", ":", "aws", ":", "bedrock", ":">>
           /\ c4 > 7
           /\ c5 > c4 + 1
           /\ model_id[c5 + 1] = "inference-profile"
           /\ model_id[c5 + 2] = "/"
           /\ model_id[c5 + 3] \in InferenceProfileScopes
           /\ model_id[c5 + 4] = "."
        THEN c5 + 3
        ELSE 0

\* normalize_model_id with group(1) starting after the scope and its dot
normalize_model_id_without_scope(model_id) ==
    LET start == InferenceProfileMatch(model_id)
        result == IF start # 0 THEN SubSeq(model_id, start + 2, Len(model_id)) ELSE model_id
    IN  IF Positions(result, ":") # {} THEN BeforeLast(result, ":") ELSE result

\* normalize_model_id: the aggregation key of a model identifier
normalize_model_id(model_id) ==
    LET start == InferenceProfileMatch(model_id)
        result == IF start # 0 THEN SubSeq(model_id, start, Len(model_id)) ELSE model_id
    IN  IF Positions(result, ":") # {} THEN BeforeLast(result, ":") ELSE result

-----------------------------------------------------------------------------
(* graph/workflow.py: helpers of the nodes *)

\* the scan start when --force-reprocess is not looked at
ScanStartHourIgnoringForce(manifest, force_reprocess, report_date) ==
    LET report_start == ReportStart(report_date)
        start_dt ==
            IF manifest.last_datehour # None
            THEN Max(report_start,
                     ParseDatehour(TheOne(manifest.last_datehour))
                        - manifest.lookback_hours * TicksPerHour)
            ELSE report_start
    IN  HourOf(start_dt)

\* the scan start of plan_scan_node, floored to the hour
ScanStartHour(manifest, force_reprocess, report_date) ==
    LET report_start == ReportStart(report_date)
        start_dt ==
            IF ~force_reprocess /\ manifest.last_datehour # None
            THEN Max(report_start,
                     ParseDatehour(TheOne(manifest.last_datehour))
                        - manifest.lookback_hours * TicksPerHour)
            ELSE report_start
    IN  HourOf(start_dt)

\* the loop with "current < end_hour": the last hour of the day is left out
RECURSIVE BuildPrefixesExclusive(_, _)
BuildPrefixesExclusive(current, end_hour) ==
    IF current < end_hour
    THEN <<current>> \o BuildPrefixesExclusive(current + 1, end_hour)
    ELSE << >>

\* the "while current <= end_hour" loop of plan_scan_node: one prefix per hour
RECURSIVE BuildPrefixes(_, _)
BuildPrefixes(current, end_hour) ==
    IF current <= end_hour
    THEN <<current>> \o BuildPrefixes(current + 1, end_hour)
    ELSE << >>

\* effective_end without the cap: the end of the report day
EffectiveEndUncapped(end_hour, t) == end_hour

\* effective_end of plan_scan_node: the checkpoint is capped at the current hour
EffectiveEnd(end_hour, t) == Min(end_hour, HourOf(t))

\* _is_metadata_file without the final pattern match
IsMetadataFileWithoutPattern(key) ==
    LET basename == KeyBasename[key] IN
    IF "_input.json" \in Range(basename) \/ "_output.json" \in Range(basename) THEN FALSE
    ELSE IF basename[1] = "amazon-bedrock-logs-permission-check" THEN FALSE
    ELSE TRUE

\* _is_metadata_file: the body-file and permission-check tests, then the
\* pattern ^\d{8}T\d{6,9}Z_[a-f0-9]+\.json(\.gz)?$
IsMetadataFile(key) ==
    LET basename == KeyBasename[key] IN
    IF "_input.json" \in Range(basename) \/ "_output.json" \in Range(basename) THEN FALSE
    ELSE IF basename[1] = "amazon-bedrock-logs-permission-check" THEN FALSE
    ELSE /\ Len(basename) \in {4, 5}
         /\ basename[1] = "ts"
         /\ basename[2] = "_"
         /\ basename[3] = "hex"
         /\ basename[4] = ".json"
         /\ Len(basename) = 5 => basename[5] = ".gz"

\* s3.list_objects(bucket, prefix): the objects the bucket holds under the prefix
Found(objs, region, prefix) ==
    LET here(k) == objs[k] # 0 /\ KeyRegion[k] = region /\ KeyHour[k] = prefix
        keys == SelectSeq(KeySeq, here)
    IN  [i \in 1..Len(keys) |-> [key |-> keys[i], etag |-> objs[keys[i]]]]

\* the "for prefix in prefixes" loop of list_objects_node:
\* acc is [objects, listed, filtered]
RECURSIVE ListPrefixes(_, _, _, _)
ListPrefixes(acc, objs, region, prefixes) ==
    IF prefixes = << >> THEN acc
    ELSE LET found == Found(objs, region, Head(prefixes))
             metadata_files == SelectSeq(found, LAMBDA o : IsMetadataFile(o.key))
         IN  ListPrefixes([objects |-> acc.objects \o metadata_files,
                           listed |-> acc.listed + Len(found),
                           filtered |-> acc.filtered + (Len(found) - Len(metadata_files))],
                          objs, region, Tail(prefixes))

\* the new-object test without the etag comparison
IsNewByKeyOnly(processed, force_reprocess, obj) ==
    \/ force_reprocess
    \/ obj.key \notin DOMAIN processed

\* the new-object test of filter_new_objects_node
IsNew(processed, force_reprocess, obj) ==
    \/ force_reprocess
    \/ obj.key \notin DOMAIN processed
    \/ processed[obj.key].etag # obj.etag

\* _parse_json_lines: json.loads raises on the first line that is not JSON
ParseJsonLines(text) ==
    IF \E i \in DOMAIN text : ~text[i].parses
    THEN [raises |-> TRUE, records |-> << >>]
    ELSE [raises |-> FALSE, records |-> [i \in DOMAIN text |-> text[i].record]]

\* parse_bedrock_records of an object of one JSON document per line: a
\* single line is loaded as a whole first, then line by line
parse_bedrock_records(text) ==
    IF text = << >> THEN [raises |-> FALSE, records |-> << >>]
    ELSE ParseJsonLines(text)

\* parse_timestamp: None unless the field is a non-empty string that
\* datetime.fromisoformat accepts
parse_timestamp(record) ==
    LET value == record.timestamp IN
    IF value.json # "string" THEN None
    ELSE IF value.text = << >> THEN None
    ELSE IF value.text[1] = "iso" THEN Some(value.text[2])
    ELSE None

\* int(x or 0) of an Optional count
OrZero(count) == IF count = None THEN 0 ELSE TheOne(count)

\* usage.get(key), where a count of 0 is as good as none ("or")
UsageCount(usage, key) ==
    IF key \in DOMAIN usage /\ usage[key] # 0 THEN Some(usage[key]) ELSE None

\* extract_token_counts: <<input_tokens, output_tokens, used_fallback>>
extract_token_counts(record) ==
    LET structured == record.inputTokenCount # None /\ record.outputTokenCount # None
        usage == IF ~structured /\ record.usage # None THEN TheOne(record.usage) ELSE << >>
        used_fallback == DOMAIN usage # {}
        input_tokens == IF record.inputTokenCount = None /\ used_fallback
                        THEN UsageCount(usage, "input_tokens") ELSE record.inputTokenCount
        output_tokens == IF record.outputTokenCount = None /\ used_fallback
                         THEN UsageCount(usage, "output_tokens") ELSE record.outputTokenCount
    IN  <<OrZero(input_tokens), OrZero(output_tokens), used_fallback>>

\* the record loop dropping a record without usable timestamp silently
IngestRecordDroppingSilently(acc, record, region, report_date) ==
    LET parsed == [acc EXCEPT !.stats.records_parsed = @ + 1]
        timestamp == parse_timestamp(record)
    IN  IF timestamp = None
        THEN parsed
        ELSE IF ~(ReportStart(report_date) <= TheOne(timestamp)
                  /\ TheOne(timestamp) < ReportEnd(report_date))
        THEN parsed
        ELSE LET counts == extract_token_counts(record)
                 missing == counts[3] \/ (counts[1] = 0 /\ counts[2] = 0)
                 original_model_id == IF record.modelId # << >> THEN record.modelId
                                      ELSE <<"unknown">>
                 model_id == normalize_model_id(original_model_id)
                 identity == IF record.arn # "" THEN record.arn ELSE "unknown"
                 record_region == IF record.region # "" THEN record.region ELSE region
             IN  [metrics |-> AddUsage(acc.metrics, record_region, identity, model_id,
                                       counts[1], counts[2], 0, original_model_id),
                  warnings |-> [acc.warnings EXCEPT !.missing_token_counts =
                                    IF missing THEN @ + 1 ELSE @],
                  stats |-> [parsed.stats EXCEPT !.records_used = @ + 1]]

\* the loop body with the token counts extracted and the missing-count
\* warning raised ahead of the report-window test
IngestRecordWarningBeforeWindow(acc, record, region, report_date) ==
    LET parsed == [acc EXCEPT !.stats.records_parsed = @ + 1]
        timestamp == parse_timestamp(record)
        counts == extract_token_counts(record)
        missing == counts[3] \/ (counts[1] = 0 /\ counts[2] = 0)
        warned == [parsed EXCEPT !.warnings.missing_token_counts =
                      IF missing THEN @ + 1 ELSE @]
    IN  IF timestamp = None
        THEN [parsed EXCEPT !.warnings.records_skipped = @ + 1]
        ELSE IF ~(ReportStart(report_date) <= TheOne(timestamp)
                  /\ TheOne(timestamp) < ReportEnd(report_date))
        THEN warned
        ELSE LET original_model_id == IF record.modelId # << >> THEN record.modelId
                                      ELSE <<"unknown">>
                 model_id == normalize_model_id(original_model_id)
                 identity == IF record.arn # "" THEN record.arn ELSE "unknown"
                 record_region == IF record.region # "" THEN record.region ELSE region
             IN  [metrics |-> AddUsage(acc.metrics, record_region, identity, model_id,
                                       counts[1], counts[2], 0, original_model_id),
                  warnings |-> warned.warnings,
                  stats |-> [parsed.stats EXCEPT !.records_used = @ + 1]]

\* the body of the "for record in records" loop of ingest_objects_node:
\* acc is [metrics, warnings, stats]
IngestRecord(acc, record, region, report_date) ==
    LET parsed == [acc EXCEPT !.stats.records_parsed = @ + 1]
        timestamp == parse_timestamp(record)
    IN  IF timestamp = None
        THEN [parsed EXCEPT !.warnings.records_skipped = @ + 1]
        ELSE IF ~(ReportStart(report_date) <= TheOne(timestamp)
                  /\ TheOne(timestamp) < ReportEnd(report_date))
        THEN parsed
        ELSE LET counts == extract_token_counts(record)
                 missing == counts[3] \/ (counts[1] = 0 /\ counts[2] = 0)
                 original_model_id == IF record.modelId # << >> THEN record.modelId
                                      ELSE <<"unknown">>
                 model_id == normalize_model_id(original_model_id)
                 identity == IF record.arn # "" THEN record.arn ELSE "unknown"
                 record_region == IF record.region # "" THEN record.region ELSE region
             IN  [metrics |-> AddUsage(acc.metrics, record_region, identity, model_id,
                                       counts[1], counts[2], 0, original_model_id),
                  warnings |-> [acc.warnings EXCEPT !.missing_token_counts =
                                    IF missing THEN @ + 1 ELSE @],
                  stats |-> [parsed.stats EXCEPT !.records_used = @ + 1]]

RECURSIVE IngestRecords(_, _, _, _)
IngestRecords(acc, records, region, report_date) ==
    IF records = << >> THEN acc
    ELSE IngestRecords(IngestRecord(acc, Head(records), region, report_date),
                       Tail(records), region, report_date)

\* the "for obj in new_objects" loop of ingest_objects_node:
\* the loop with the exception of parse_bedrock_records caught: the object
\* is recorded as processed and the loop goes on
RECURSIVE IngestObjectsRecordingFailed(_, _, _, _, _)
IngestObjectsRecordingFailed(acc, new_objects, region, report_date, t) ==
    IF new_objects = << >> THEN acc
    ELSE LET obj == Head(new_objects)
             parsed == parse_bedrock_records(KeyText[obj.key])
             counted == [metrics |-> acc.metrics, warnings |-> acc.warnings,
                         stats |-> [acc.stats EXCEPT !.objects_processed = @ + 1]]
             done == IngestRecords(counted, parsed.records, region, report_date)
         IN  IngestObjectsRecordingFailed(
                 [metrics |-> done.metrics, warnings |-> done.warnings, stats |-> done.stats,
                  manifest |-> RecordProcessed(acc.manifest, obj.key, obj.etag, t),
                  raises |-> FALSE],
                 Tail(new_objects), region, report_date, t)

\* acc is [metrics, warnings, stats, manifest, raises]; an exception of
\* parse_bedrock_records leaves the loop and the node
RECURSIVE IngestObjects(_, _, _, _, _)
IngestObjects(acc, new_objects, region, report_date, t) ==
    IF new_objects = << >> THEN acc
    ELSE LET obj == Head(new_objects)
             parsed == parse_bedrock_records(KeyText[obj.key])
             counted == [metrics |-> acc.metrics, warnings |-> acc.warnings,
                         stats |-> [acc.stats EXCEPT !.objects_processed = @ + 1]]
             done == IngestRecords(counted, parsed.records, region, report_date)
         IN  IF parsed.raises THEN [acc EXCEPT !.raises = TRUE]
             ELSE IngestObjects([metrics |-> done.metrics, warnings |-> done.warnings,
                                 stats |-> done.stats,
                                 manifest |-> RecordProcessed(acc.manifest, obj.key,
                                                              obj.etag, t),
                                 raises |-> FALSE],
                                Tail(new_objects), region, report_date, t)

\* _sum_stats
RECURSIVE SumStats(_)
SumStats(stats_map) ==
    IF DOMAIN stats_map = {} THEN ZeroStats
    ELSE LET k == CHOOSE x \in DOMAIN stats_map : TRUE
             rest == [x \in DOMAIN stats_map \ {k} |-> stats_map[x]]
         IN  StatsAdd(SumStats(rest), stats_map[k].input_tokens,
                      stats_map[k].output_tokens, stats_map[k].cost_usd)

\* _stats_equal: costs may differ by less than 0.0001 dollars
StatsEqual(left, right) ==
    /\ left.input_tokens = right.input_tokens
    /\ left.output_tokens = right.output_tokens
    /\ left.total_tokens = right.total_tokens
    /\ left.cost_usd - right.cost_usd < CostTolerance
    /\ right.cost_usd - left.cost_usd < CostTolerance

-----------------------------------------------------------------------------
(* adapters/pricing.py and metrics/aggregator.py *)

\* normalize_model_id of adapters/pricing.py
pricing_normalize_model_id(model_id) ==
    LET value == IF Len(model_id) >= 2 /\ model_id[1] = "arn" /\ model_id[2] = ":"
                 THEN AfterSplits(model_id, ":", 5)
                 ELSE model_id
    IN  IF Positions(value, "/") # {} THEN AfterLast(value, "/") ELSE value

\* get_pricing_model_key: the key a model identifier is priced under
get_pricing_model_key(original_model_id) ==
    LET profiles == {i \in 1..(Len(original_model_id) - 1) :
                        /\ original_model_id[i] = "inference-profile"
                        /\ original_model_id[i + 1] = "/"}
        first == CHOOSE i \in profiles : \A j \in profiles : i <= j
        result == IF profiles # {}
                  THEN SubSeq(original_model_id, first + 2, Len(original_model_id))
                  ELSE pricing_normalize_model_id(original_model_id)
    IN  IF Positions(result, ":") # {} THEN BeforeLast(result, ":") ELSE result

\* a PriceRate; rates are thousandths of a dollar per 1000 tokens
PriceRate(input_per_1k, output_per_1k) ==
    [input_per_1k |-> input_per_1k, output_per_1k |-> output_per_1k,
     missing_input |-> FALSE, missing_output |-> FALSE]

\* one "<model_id>: <region>: {input_per_1k: ..., output_per_1k: ...}" entry
\* of the pricing file; a rate the entry leaves out is None
Row(model_id, region, input_rate, output_rate) ==
    [model_id |-> model_id, region |-> region,
     input_rate |-> input_rate, output_rate |-> output_rate]

\* _load_pricing_yaml: the price table of a pricing file, per pricing key and
\* region (or "default").  An entry with neither rate is skipped, a rate left
\* out counts 0.  No two entries of a file are for the same key and region.
LoadPricingYaml(file) ==
    LET rows == {r \in file : /\ get_pricing_model_key(r.model_id) # << >>
                              /\ ~(r.input_rate = None /\ r.output_rate = None)}
        rowsOf(key) == {r \in rows : get_pricing_model_key(r.model_id) = key}
        rate(r) == [input_per_1k |-> IF r.input_rate = None THEN 0 ELSE TheOne(r.input_rate),
                    output_per_1k |-> IF r.output_rate = None THEN 0 ELSE TheOne(r.output_rate),
                    missing_input |-> r.input_rate = None,
                    missing_output |-> r.output_rate = None]
    IN  [key \in {get_pricing_model_key(r.model_id) : r \in rows} |->
            [region \in {r.region : r \in rowsOf(key)} |->
                rate(CHOOSE r \in rowsOf(key) : r.region = region)]]

\* the pricing file of the workflow runs
PricingFile == {Row(Versioned(<<"m1">>), "default", Some(3), Some(15))}

PricingYaml == LoadPricingYaml(PricingFile)

\* _filter_rates keeping the table keys that are among model_ids as they are
\* given, without get_pricing_model_key
FilterRatesByGivenId(rates, model_ids) ==
    IF model_ids = {} THEN rates
    ELSE [k \in DOMAIN rates \cap model_ids |-> rates[k]]

\* _filter_rates
FilterRates(rates, model_ids) ==
    IF model_ids = {} THEN rates
    ELSE LET pricing_keys == {get_pricing_model_key(m) : m \in model_ids} \ {<< >>}
         IN  [k \in DOMAIN rates \cap pricing_keys |-> rates[k]]

\* get_rate with "default" looked up ahead of the region
GetRateDefaultFirst(rates, model_id, region) ==
    LET pricing_key == get_pricing_model_key(model_id) IN
    IF pricing_key \in DOMAIN rates /\ DOMAIN rates[pricing_key] # {}
    THEN IF "default" \in DOMAIN rates[pricing_key]
         THEN Some(rates[pricing_key]["default"])
         ELSE IF region \in DOMAIN rates[pricing_key]
              THEN Some(rates[pricing_key][region])
              ELSE None
    ELSE None

\* StaticPricingProvider.get_rate, given the loaded table: Optional rate
GetRate(rates, model_id, region) ==
    LET pricing_key == get_pricing_model_key(model_id) IN
    IF pricing_key \in DOMAIN rates /\ DOMAIN rates[pricing_key] # {}
    THEN IF region \in DOMAIN rates[pricing_key] THEN Some(rates[pricing_key][region])
         ELSE IF "default" \in DOMAIN rates[pricing_key]
              THEN Some(rates[pricing_key]["default"])
              ELSE None
    ELSE None

\* compute_cost with the two rates swapped
ComputeCostRatesSwapped(rate, input_tokens, output_tokens) ==
    IF rate = None THEN 0
    ELSE input_tokens * TheOne(rate).output_per_1k + output_tokens * TheOne(rate).input_per_1k

\* compute_cost, in millionths of a dollar
ComputeCost(rate, input_tokens, output_tokens) ==
    IF rate = None THEN 0
    ELSE input_tokens * TheOne(rate).input_per_1k + output_tokens * TheOne(rate).output_per_1k

\* apply_pricing without the resets
ResetCostsOmitted(m) == m

\* the "cost_usd = 0.0" resets apply_pricing starts with
ResetCosts(m) ==
    LET reset(map) == [x \in DOMAIN map |-> [map[x] EXCEPT !.cost_usd = 0]]
    IN  [m EXCEPT !.totals.cost_usd = 0,
                  !.by_region = reset(@),
                  !.by_identity = reset(@),
                  !.by_model = reset(@)]

\* the loop body without "self.by_model[model_id].cost_usd += cost"
PriceUsageKeySkippingByModel(acc, key, rates) ==
    LET m == acc.metrics
        stats == m.by_usage_key[key]
        original_model_id == IF key[3] \in DOMAIN m.model_id_map
                             THEN m.model_id_map[key[3]] ELSE key[3]
        rate == GetRate(rates, original_model_id, key[1])
        cost == ComputeCost(rate, stats.input_tokens, stats.output_tokens)
    IN  [metrics |->
            [m EXCEPT !.by_usage_key[key].cost_usd = cost,
                      !.totals.cost_usd = @ + cost,
                      !.by_region[key[1]].cost_usd = @ + cost,
                      !.by_identity[key[2]].cost_usd = @ + cost],
         warnings |->
            IF rate = None
            THEN [acc.warnings EXCEPT !.unpriced_models = @ \cup {key[3]}]
            ELSE acc.warnings]

\* the body of the "for (region, identity, model_id), stats in
\* self.by_usage_key.items()" loop of apply_pricing: acc is [metrics, warnings].
\* Every granular key has its entry in each dimension (add_usage and merge
\* create them together).
PriceUsageKey(acc, key, rates) ==
    LET m == acc.metrics
        stats == m.by_usage_key[key]
        original_model_id == IF key[3] \in DOMAIN m.model_id_map
                             THEN m.model_id_map[key[3]] ELSE key[3]
        rate == GetRate(rates, original_model_id, key[1])
        cost == ComputeCost(rate, stats.input_tokens, stats.output_tokens)
    IN  [metrics |->
            [m EXCEPT !.by_usage_key[key].cost_usd = cost,
                      !.totals.cost_usd = @ + cost,
                      !.by_region[key[1]].cost_usd = @ + cost,
                      !.by_identity[key[2]].cost_usd = @ + cost,
                      !.by_model[key[3]].cost_usd = @ + cost],
         warnings |->
            IF rate = None
            THEN [acc.warnings EXCEPT !.unpriced_models = @ \cup {key[3]}]
            ELSE IF TheOne(rate).missing_input \/ TheOne(rate).missing_output
            THEN [acc.warnings EXCEPT !.partial_pricing_models = @ \cup {key[3]}]
            ELSE acc.warnings]

RECURSIVE PriceUsageKeys(_, _, _)

PriceUsageKeys(acc, keys, rates) ==
    IF keys = {} THEN acc
    ELSE LET key == CHOOSE k \in keys : TRUE
         IN  PriceUsageKeys(PriceUsageKey(acc, key, rates), keys \ {key}, rates)

\* Metrics.apply_pricing: [metrics, warnings]
ApplyPricing(m, rates, warnings) ==
    PriceUsageKeys([metrics |-> ResetCosts(m), warnings |-> warnings],
                   DOMAIN m.by_usage_key, rates)

-----------------------------------------------------------------------------
(* State *)

VARIABLES
    config,       \* config.regions of the configuration file, in order
    slack,        \* deps.slack, Optional: what post_message of the notifier does,
                  \* "ok" (delivers) or "error" (raises)
    runs,         \* the number of invocations so far
    now,          \* the wall clock read by run_config.now_fn, in ticks
    bucket,       \* per object key: 0 when absent, else the etag (content version)
    manifests,    \* per region: the stored manifest document, Optional
    snapshots,    \* per report date: the stored snapshot document, Optional
    pc,           \* the node the workflow runs next; "idle", "END" or "failed" between runs
    run_config,   \* RunConfig of the current invocation
    state,        \* GraphState of the current invocation
    pricing,      \* deps.pricing._rates: the loaded price table, Optional
    opA, opB, opC,  \* three Metrics objects built by add_usage calls
    ops,          \* the number of add_usage calls made on them
    merged,       \* the results of Metrics.merge on copies of them, Optional
    usage,        \* a Metrics object fed with parsed records, their number, and the
                  \* tokens recorded so far per original model identifier and region
    priced,       \* the results of Metrics.apply_pricing on copies of it, Optional
    ingest,       \* the text of an object and what the record loop made of it, Optional
    peer          \* a second invocation of the program, suspended between two nodes:
                  \* its pc, run_config, state and pricing

vars == <<config, slack, runs, now, bucket, manifests, snapshots, pc, run_config, state, pricing,
          opA, opB, opC, ops, merged, usage, priced, ingest, peer>>

algebra == <<opA, opB, opC, ops, merged, usage, priced, ingest, peer>>

Regions == config

\* the object keys of the buckets of the configured regions
ConfiguredKeys == {k \in LogKeys : KeyRegion[k] \in Range(config)}

stores == <<manifests, snapshots>>

NoWarnings ==
    [unpriced_models |-> {}, partial_pricing_models |-> {}, missing_token_counts |-> 0,
     records_skipped |-> 0, verification_errors |-> {}]

NoStats ==
    [objects_listed |-> 0, objects_filtered |-> 0, objects_processed |-> 0,
     records_parsed |-> 0, records_used |-> 0]

\* the GraphState load_config_node leaves behind
FreshState(report_date) ==
    [report_date |-> report_date, region_index |-> 0, current_region |-> "",
     current_manifest |-> NewManifest(LookbackHours),
     scan_prefixes |-> << >>, scan_end_datehour |-> None,
     objects |-> << >>, new_objects |-> << >>,
     metrics |-> EmptyMetrics, warnings |-> NoWarnings, stats |-> NoStats,
     report_snapshot |-> None]

Between == {"idle", "END", "failed"}

InitDeps(regions, notifiers) ==
    /\ config = regions
    /\ slack \in notifiers
    /\ runs = 0
    /\ now = NowInit
    /\ bucket = [k \in Keys |-> 0]
    /\ manifests = [r \in AllRegions |-> None]
    /\ snapshots = [d \in Days |-> None]
    /\ pc = "idle"
    /\ run_config = [force_reprocess |-> FALSE, report_date |-> None]
    /\ state = FreshState(0)
    /\ pricing = None
    /\ opA = EmptyMetrics /\ opB = EmptyMetrics /\ opC = EmptyMetrics
    /\ ops = 0
    /\ merged = None
    /\ usage = [metrics |-> EmptyMetrics, records |-> 0, recorded |-> [q \in {} |-> <<0, 0>>]]
    /\ priced = None
    /\ ingest = None
    /\ peer = [pc |-> "idle", run_config |-> [force_reprocess |-> FALSE, report_date |-> None],
               state |-> FreshState(0), pricing |-> None]

\* no notifier is configured
InitWith(regions) == InitDeps(regions, {None})

Init == InitWith(<<"r1">>)

\* the lists of regions a configuration file may give (the keys of a
\* non-empty mapping, in the order of the file)
RegionLists == {<<"r1">>, <<"r2">>, <<"r1", "r2">>, <<"r2", "r1">>}

InitAnyRegions == \E regions \in RegionLists : InitWith(regions)

InitRegions == InitWith(<<"r1", "r2">>)

-----------------------------------------------------------------------------
(* The environment: the clock, and the service that writes log objects *)

\* The nodes that read the clock (now_fn) or list the bucket.  The clock and
\* the bucket change only between runs or right before such a node: a change
\* at any other node is not observed before the next of these.
ClockNodes == {"plan_scan", "list_objects", "ingest_objects", "update_manifest"}

BucketNodes == {"list_objects"}

\* time passes
Tick ==
    /\ pc \in Between \cup ClockNodes
    /\ now < MaxNow
    /\ now' = now + 1
    /\ UNCHANGED <<config, slack, runs, bucket, stores, pc, run_config, state, pricing, algebra>>

\* A log object is delivered under the prefix of its hour, during that hour
\* or at most LookbackHours later.
Land(k) ==
    /\ pc \in Between \cup BucketNodes
    /\ bucket[k] = 0
    /\ KeyHour[k] <= HourOf(now)
    /\ HourOf(now) <= KeyHour[k] + LookbackHours
    /\ bucket' = [bucket EXCEPT ![k] = 1]
    /\ UNCHANGED <<config, slack, runs, now, stores, pc, run_config, state, pricing, algebra>>

\* An object is overwritten in place: same key, new etag.
Rewrite(k) ==
    /\ pc \in Between \cup BucketNodes
    /\ bucket[k] # 0
    /\ bucket[k] < MaxEtag
    /\ bucket' = [bucket EXCEPT ![k] = @ + 1]
    /\ UNCHANGED <<config, slack, runs, now, stores, pc, run_config, state, pricing, algebra>>

\* The seen_at values of a stored entry that prune_manifest cannot date
UndatedChoices == {NoTimestamp, EmptyText, OtherText}

\* Between runs the stored manifest of a region is replaced by a document in
\* which an entry has no usable seen_at (written by hand or by another tool).
LoseSeenAt(r, k, value) ==
    /\ pc \in Between
    /\ manifests[r] # None
    /\ k \in DOMAIN TheOne(manifests[r]).processed
    /\ SeenAt(TheOne(manifests[r]).processed[k]) # None
    /\ manifests' = [manifests EXCEPT ![r] =
            Some([TheOne(manifests[r]) EXCEPT !.processed[k].seen_at = value])]
    /\ UNCHANGED <<config, slack, runs, now, bucket, snapshots, pc, run_config, state,
                   pricing, algebra>>

\* the file is as write_snapshot left it
Intact(doc) ==
    /\ IsMapping(doc)
    /\ doc.schema_version = SNAPSHOT_SCHEMA_VERSION
    /\ IsMapping(doc.metrics)
    /\ DOMAIN doc.metrics = Range(MetricsSections)

\* the file cut off inside its metrics section, after n of its keys: what is
\* left is still YAML
Truncated(doc, n) ==
    [schema_version |-> doc.schema_version, report_date |-> doc.report_date,
     metrics |-> [section \in {MetricsSections[i] : i \in 1..n} |-> doc.metrics[section]]]

\* the ways a snapshot file is found damaged, or written by another version
DamageKinds ==
    {"not_yaml", "not_a_mapping", "schema_version", "metrics_not_a_mapping",
     "cut_after_totals", "cut_after_by_region"}

Damaged(doc, kind) ==
    CASE kind = "not_yaml" -> Unparsable
      [] kind = "not_a_mapping" -> Scalar
      [] kind = "schema_version" -> [doc EXCEPT !.schema_version = SNAPSHOT_SCHEMA_VERSION + 1]
      [] kind = "metrics_not_a_mapping" -> [doc EXCEPT !.metrics = Scalar]
      [] kind = "cut_after_totals" -> Truncated(doc, 1)
      [] kind = "cut_after_by_region" -> Truncated(doc, 2)

\* The stored snapshot of a date is damaged between two runs.
Damage(d, kind) ==
    /\ pc \in Between
    /\ snapshots[d] # None
    /\ Intact(TheOne(snapshots[d]))
    /\ snapshots' = [snapshots EXCEPT ![d] = Some(Damaged(TheOne(snapshots[d]), kind))]
    /\ UNCHANGED <<config, slack, runs, now, bucket, manifests, pc, run_config, state,
                   pricing, algebra>>

-----------------------------------------------------------------------------
(* The workflow: one action per node of build_graph *)

CurrentRegion == state.current_region

\* what is left of an invocation once its process has exited
Exited ==
    /\ run_config' = [force_reprocess |-> FALSE, report_date |-> None]
    /\ state' = FreshState(0)
    /\ pricing' = None

\* cli.main / graph.invoke({}) followed by load_config_node
LoadConfigNode(force_reprocess, report_date) ==
    /\ pc \in Between
    /\ runs < MaxRuns
    /\ runs' = runs + 1
    /\ run_config' = [force_reprocess |-> force_reprocess, report_date |-> report_date]
    /\ state' = FreshState(IF report_date # None THEN TheOne(report_date) ELSE DateOf(now))
    /\ pricing' = None
    /\ pc' = "region_router"
    /\ UNCHANGED <<config, slack, now, bucket, stores, algebra>>

\* the conditional edge leaving the loop after the first region
RegionRouterFirstRegionOnly ==
    /\ pc = "region_router"
    /\ IF state.region_index < 1
       THEN /\ state' = [state EXCEPT !.current_region = Regions[state.region_index + 1]]
            /\ pc' = "load_manifest"
       ELSE /\ state' = state
            /\ pc' = "load_snapshot"
    /\ UNCHANGED <<config, slack, runs, now, bucket, stores, run_config, pricing, algebra>>

\* region_router and the conditional edge that leaves it
RegionRouter ==
    /\ pc = "region_router"
    /\ IF state.region_index < Len(Regions)
       THEN /\ state' = [state EXCEPT !.current_region = Regions[state.region_index + 1]]
            /\ pc' = "load_manifest"
       ELSE /\ state' = state
            /\ pc' = "load_snapshot"
    /\ UNCHANGED <<config, slack, runs, now, bucket, stores, run_config, pricing, algebra>>

LoadManifestNode ==
    /\ pc = "load_manifest"
    /\ state' = [state EXCEPT !.current_manifest =
                    [LoadManifest(manifests[CurrentRegion], LookbackHours)
                        EXCEPT !.lookback_hours = LookbackHours]]
    /\ pc' = "plan_scan"
    /\ UNCHANGED <<config, slack, runs, now, bucket, stores, run_config, pricing, algebra>>

PlanScanNode ==
    /\ pc = "plan_scan"
    /\ LET end_hour == EndHour(state.report_date)
           prefixes == BuildPrefixes(ScanStartHour(state.current_manifest,
                                                   run_config.force_reprocess,
                                                   state.report_date),
                                     end_hour)
       IN  state' = [state EXCEPT
                        !.scan_prefixes = prefixes,
                        !.scan_end_datehour =
                            IF prefixes # << >> THEN Some(EffectiveEnd(end_hour, now)) ELSE None]
    /\ pc' = "list_objects"
    /\ UNCHANGED <<config, slack, runs, now, bucket, stores, run_config, pricing, algebra>>

ListObjectsNode ==
    /\ pc = "list_objects"
    /\ LET start == [objects |-> << >>, listed |-> state.stats.objects_listed,
                     filtered |-> state.stats.objects_filtered]
           res == ListPrefixes(start, bucket, CurrentRegion, state.scan_prefixes)
       IN  state' = [state EXCEPT !.objects = res.objects,
                                  !.stats.objects_listed = res.listed,
                                  !.stats.objects_filtered = res.filtered]
    /\ pc' = "filter_new_objects"
    /\ UNCHANGED <<config, slack, runs, now, bucket, stores, run_config, pricing, algebra>>

\* has_new_objects bypassing update_manifest when nothing is new
FilterNewObjectsNodeSkippingUpdate ==
    /\ pc = "filter_new_objects"
    /\ LET new_objects ==
            SelectSeq(state.objects,
                      LAMBDA o : IsNew(state.current_manifest.processed,
                                       run_config.force_reprocess, o))
       IN  /\ state' = [state EXCEPT !.new_objects = new_objects]
           /\ pc' = IF new_objects # << >> THEN "ingest_objects" ELSE "advance_region"
    /\ UNCHANGED <<config, slack, runs, now, bucket, stores, run_config, pricing, algebra>>

\* filter_new_objects_node and the has_new_objects edge
FilterNewObjectsNode ==
    /\ pc = "filter_new_objects"
    /\ LET new_objects ==
            SelectSeq(state.objects,
                      LAMBDA o : IsNew(state.current_manifest.processed,
                                       run_config.force_reprocess, o))
       IN  /\ state' = [state EXCEPT !.new_objects = new_objects]
           /\ pc' = IF new_objects # << >> THEN "ingest_objects" ELSE "update_manifest"
    /\ UNCHANGED <<config, slack, runs, now, bucket, stores, run_config, pricing, algebra>>

\* ingest_objects_node; an exception is not caught and ends the run
IngestObjectsNode ==
    /\ pc = "ingest_objects"
    /\ LET start == [metrics |-> state.metrics, warnings |-> state.warnings,
                     stats |-> state.stats, manifest |-> state.current_manifest,
                     raises |-> FALSE]
           res == IngestObjects(start, state.new_objects, CurrentRegion,
                                state.report_date, now)
       IN  IF res.raises
           THEN /\ pc' = "failed"
                /\ Exited
           ELSE /\ state' = [state EXCEPT !.metrics = res.metrics, !.warnings = res.warnings,
                                          !.stats = res.stats,
                                          !.current_manifest = res.manifest]
                /\ pc' = "update_manifest"
                /\ UNCHANGED <<run_config, pricing>>
    /\ UNCHANGED <<config, slack, runs, now, bucket, stores, algebra>>

\* update_manifest_node with a save that keeps what another invocation has
\* stored in the meantime: its entries for keys this one does not hold
UpdateManifestNodeMerging ==
    /\ pc = "update_manifest"
    /\ LET manifest == PruneManifest(
                          UpdateLastDatehour(state.current_manifest, state.scan_end_datehour),
                          now)
           stored == LoadManifest(manifests[CurrentRegion], LookbackHours).processed
           both == [manifest EXCEPT !.processed =
                       [k \in DOMAIN stored \cup DOMAIN manifest.processed |->
                           IF k \in DOMAIN manifest.processed THEN manifest.processed[k]
                           ELSE stored[k]]]
       IN  /\ state' = [state EXCEPT !.current_manifest = both]
           /\ manifests' = [manifests EXCEPT ![CurrentRegion] = Some(both)]
    /\ pc' = "advance_region"
    /\ UNCHANGED <<config, slack, runs, now, bucket, snapshots, run_config, pricing, algebra>>

\* update_manifest_node: checkpoint, prune, save (an unconditional overwrite:
\* state["current_manifest_etag"], set by load_manifest_node, is read nowhere
\* and is left out of the state)
UpdateManifestNode ==
    /\ pc = "update_manifest"
    /\ LET manifest == PruneManifest(
                          UpdateLastDatehour(state.current_manifest, state.scan_end_datehour),
                          now)
       IN  /\ state' = [state EXCEPT !.current_manifest = manifest]
           /\ manifests' = [manifests EXCEPT ![CurrentRegion] = Some(manifest)]
    /\ pc' = "advance_region"
    /\ UNCHANGED <<config, slack, runs, now, bucket, snapshots, run_config, pricing, algebra>>

\* advance_region_node without the increment
AdvanceRegionNodeStuck ==
    /\ pc = "advance_region"
    /\ state' = state
    /\ pc' = "region_router"
    /\ UNCHANGED <<config, slack, runs, now, bucket, stores, run_config, pricing, algebra>>

\* advance_region_node
AdvanceRegionNode ==
    /\ pc = "advance_region"
    /\ state' = [state EXCEPT !.region_index = @ + 1]
    /\ pc' = "region_router"
    /\ UNCHANGED <<config, slack, runs, now, bucket, stores, run_config, pricing, algebra>>

\* The body of load_snapshot_node after the force_reprocess test: the metrics
\* to merge (Optional); snapshot.get raises when the loaded value is not a
\* dict.
LoadSnapshot(stored) ==
    LET snapshot == ReadSnapshot(stored)
        Return(existing_metrics) == [raises |-> FALSE, existing_metrics |-> existing_metrics]
    IN  IF snapshot = None THEN Return(None)
        ELSE IF ~IsMapping(TheOne(snapshot)) THEN [raises |-> TRUE, existing_metrics |-> None]
        ELSE IF Get(TheOne(snapshot), "schema_version", 0) # SNAPSHOT_SCHEMA_VERSION
             THEN Return(None)
        ELSE Return(LoadMetricsFromSnapshot(TheOne(snapshot)))

\* load_snapshot_node without the force_reprocess test
LoadSnapshotNodeAlwaysMerging ==
    /\ pc = "load_snapshot"
    /\ LET loaded == LoadSnapshot(snapshots[state.report_date])
           existing_metrics == loaded.existing_metrics
       IN  IF loaded.raises
           THEN /\ pc' = "failed"
                /\ Exited
           ELSE /\ state' = IF existing_metrics = None THEN state
                            ELSE [state EXCEPT !.metrics = Merge(@, TheOne(existing_metrics))]
                /\ pc' = "refresh_pricing"
                /\ UNCHANGED <<run_config, pricing>>
    /\ UNCHANGED <<config, slack, runs, now, bucket, stores, algebra>>

\* load_snapshot_node: merge the stored snapshot of the report date; an
\* exception is not caught and ends the run
LoadSnapshotNode ==
    /\ pc = "load_snapshot"
    /\ LET loaded == IF run_config.force_reprocess
                     THEN [raises |-> FALSE, existing_metrics |-> None]
                     ELSE LoadSnapshot(snapshots[state.report_date])
           existing_metrics == loaded.existing_metrics
       IN  IF loaded.raises
           THEN /\ pc' = "failed"
                /\ Exited
           ELSE /\ state' = IF existing_metrics = None THEN state
                            ELSE [state EXCEPT !.metrics = Merge(@, TheOne(existing_metrics))]
                /\ pc' = "refresh_pricing"
                /\ UNCHANGED <<run_config, pricing>>
    /\ UNCHANGED <<config, slack, runs, now, bucket, stores, algebra>>

\* refresh_pricing_node: the table is restricted to the models seen
RefreshPricingNode ==
    /\ pc = "refresh_pricing"
    /\ LET metrics == state.metrics
           model_ids == {IF n \in DOMAIN metrics.model_id_map THEN metrics.model_id_map[n] ELSE n :
                            n \in DOMAIN metrics.by_model}
       IN  pricing' = IF model_ids # {} THEN Some(FilterRates(PricingYaml, model_ids))
                      ELSE pricing
    /\ pc' = "apply_pricing"
    /\ UNCHANGED <<config, slack, runs, now, bucket, stores, run_config, state, algebra>>

\* apply_pricing_node; get_rate loads the whole table when none is loaded yet
ApplyPricingNode ==
    /\ pc = "apply_pricing"
    /\ LET rates == IF pricing = None THEN PricingYaml ELSE TheOne(pricing)
           res == ApplyPricing(state.metrics, rates, state.warnings)
       IN  /\ state' = [state EXCEPT !.metrics = res.metrics, !.warnings = res.warnings]
           /\ pricing' = IF DOMAIN state.metrics.by_usage_key # {} THEN Some(rates) ELSE pricing
    /\ pc' = "verify_results"
    /\ UNCHANGED <<config, slack, runs, now, bucket, stores, run_config, algebra>>

\* verify_results_node comparing the totals with the by_region sum twice
VerifyResultsNodeRegionOnly ==
    /\ pc = "verify_results"
    /\ LET metrics == state.metrics
           errors == (IF StatsEqual(metrics.totals, SumStats(metrics.by_region))
                      THEN {} ELSE {"by_region_mismatch"})
                     \cup
                     (IF StatsEqual(metrics.totals, SumStats(metrics.by_region))
                      THEN {} ELSE {"by_identity_mismatch"})
       IN  state' = [state EXCEPT !.warnings.verification_errors = @ \cup errors]
    /\ pc' = "render_report"
    /\ UNCHANGED <<config, slack, runs, now, bucket, stores, run_config, pricing, algebra>>

VerifyResultsNode ==
    /\ pc = "verify_results"
    /\ LET metrics == state.metrics
           errors == (IF StatsEqual(metrics.totals, SumStats(metrics.by_region))
                      THEN {} ELSE {"by_region_mismatch"})
                     \cup
                     (IF StatsEqual(metrics.totals, SumStats(metrics.by_identity))
                      THEN {} ELSE {"by_identity_mismatch"})
       IN  state' = [state EXCEPT !.warnings.verification_errors = @ \cup errors]
    /\ pc' = "render_report"
    /\ UNCHANGED <<config, slack, runs, now, bucket, stores, run_config, pricing, algebra>>

\* render_report_node (the text and generated_at are not modelled)
RenderReportNode ==
    /\ pc = "render_report"
    /\ state' = [state EXCEPT !.report_snapshot =
                    Some(BuildReportSnapshot(state.report_date, state.metrics,
                                             state.warnings, state.stats))]
    /\ pc' = "write_snapshot"
    /\ UNCHANGED <<config, slack, runs, now, bucket, stores, run_config, pricing, algebra>>

\* write_snapshot_node: the snapshot of the report date is overwritten
WriteSnapshotNode ==
    /\ pc = "write_snapshot"
    /\ snapshots' = [snapshots EXCEPT ![state.report_date] = state.report_snapshot]
    /\ pc' = "append_csv"
    /\ UNCHANGED <<config, slack, runs, now, bucket, manifests, run_config, state, pricing, algebra>>

\* append_csv_node (the CSV file is not modelled)
AppendCsvNode ==
    /\ pc = "append_csv"
    /\ pc' = "post_report"
    /\ UNCHANGED <<config, slack, runs, now, bucket, stores, run_config, state, pricing, algebra>>

\* post_report_node swallowing the exception of post_message
PostReportNodeSwallowingError ==
    /\ pc = "post_report"
    /\ pc' = "END"
    /\ Exited
    /\ UNCHANGED <<config, slack, runs, now, bucket, stores, algebra>>

\* post_report_node: without a notifier nothing is sent; with one, the
\* message is delivered or post_message raises and the exception is raised
\* again; either way the run ends
PostReportNode ==
    /\ pc = "post_report"
    /\ pc' = IF slack = Some("error") THEN "failed" ELSE "END"
    /\ Exited
    /\ UNCHANGED <<config, slack, runs, now, bucket, stores, algebra>>

\* Two invocations of the program run at the same time (two cron jobs, or a
\* manual run next to a scheduled one): the one that was running is suspended
\* between two nodes and the other one resumes. Nodes that touch only the
\* invocation's own state commute with the other invocation's steps, so the
\* hand-over is taken only in front of a node that reads or writes the clock,
\* the bucket or a store.
SharedNodes ==
    {"load_manifest", "plan_scan", "list_objects", "ingest_objects", "update_manifest",
     "load_snapshot", "write_snapshot"}

Switch ==
    /\ pc \in Between \cup SharedNodes
    /\ peer.pc \in Between \cup SharedNodes
    /\ peer' = [pc |-> pc, run_config |-> run_config, state |-> state, pricing |-> pricing]
    /\ pc' = peer.pc
    /\ run_config' = peer.run_config
    /\ state' = peer.state
    /\ pricing' = peer.pricing
    /\ UNCHANGED <<config, slack, runs, now, bucket, stores, opA, opB, opC, ops, merged, usage,
                   priced, ingest>>

\* The nodes that talk to the object store, the pricing file or the snapshot
\* store: an exception there is not caught and ends the run.
IoNodes ==
    {"load_manifest", "list_objects", "ingest_objects", "update_manifest",
     "refresh_pricing", "write_snapshot", "append_csv"}

\* update_manifest_node raising after put_object has stored the manifest
AbortAfterPut ==
    /\ pc \in IoNodes
    /\ pc' = "failed"
    /\ Exited
    /\ manifests' = IF pc = "update_manifest"
                    THEN [manifests EXCEPT ![CurrentRegion] = Some(state.current_manifest)]
                    ELSE manifests
    /\ UNCHANGED <<config, slack, runs, now, bucket, snapshots, algebra>>

\* The node raises before it has written anything.
Abort ==
    /\ pc \in IoNodes
    /\ pc' = "failed"
    /\ Exited
    /\ UNCHANGED <<config, slack, runs, now, bucket, stores, algebra>>

-----------------------------------------------------------------------------
(* Metrics as a value: add_usage and merge called on free-standing objects *)

UsageRegions == {"r1", "r2"}

UsageIdentities == {"arn:k1", "arn:k2"}

UsageModels == {<<"m1">>, <<"m2">>}

\* the (input_tokens, output_tokens) pairs of the calls
UsageTokens == {<<1, 2>>, <<4, 0>>}

\* operand.add_usage(region=..., identity=..., model_id=..., ...) on one of
\* the three objects; original_model_id is << >> when the argument is left
\* at its default
AddUsageCall(operand, region, identity, model_id, tokens, original_model_id) ==
    /\ merged = None
    /\ ops < MaxOps
    /\ ops' = ops + 1
    /\ LET call(m) == AddUsage(m, region, identity, model_id, tokens[1], tokens[2],
                               tokens[1] + tokens[2], original_model_id)
       IN  /\ opA' = IF operand = "a" THEN call(opA) ELSE opA
           /\ opB' = IF operand = "b" THEN call(opB) ELSE opB
           /\ opC' = IF operand = "c" THEN call(opC) ELSE opC
    /\ UNCHANGED <<config, slack, runs, now, bucket, stores, pc, run_config, state, pricing, merged,
                   usage, priced,
                   ingest, peer>>

\* x.merge(y) on deep copies of the operands, in both orders and both
\* groupings; merge mutates and returns its receiver.  pa and pb are copies
\* of a and b after apply_pricing, as a stored snapshot holds them, and pab is
\* pa.merge(pb)
MergeCalls ==
    /\ merged = None
    /\ LET pa == ApplyPricing(opA, PricingYaml, NoWarnings).metrics
           pb == ApplyPricing(opB, PricingYaml, NoWarnings).metrics
       IN  merged' = Some([ab |-> Merge(opA, opB),
                           ba |-> Merge(opB, opA),
                           ab_c |-> Merge(Merge(opA, opB), opC),
                           a_bc |-> Merge(opA, Merge(opB, opC)),
                           pa |-> pa, pb |-> pb, pab |-> Merge(pa, pb)])
    /\ UNCHANGED <<config, slack, runs, now, bucket, stores, pc, run_config, state, pricing,
                   opA, opB, opC, ops, usage, priced,
                   ingest, peer>>

(* Metrics as a value: apply_pricing called on a free-standing object *)

PlainModel == Versioned(<<"m1">>)

OtherVersion == Versioned(<<"m1-v2">>)

\* "arn:aws:bedrock:r1:acct:inference-profile/<scope>.m1:0"
Profile(scope) == Arn("inference-profile", Versioned(<<scope, ".", "m1">>))

\* the modelId values of the records
RecordedModels == {PlainModel, OtherVersion, Profile("us"), Profile("global")}

\* "arn:aws:bedrock:r1:acct:foundation-model/<name>", without version suffix
Unversioned(name) == Arn("foundation-model", name)

\* modelId values given as ARNs without version suffix
UnversionedModels == {Unversioned(<<"m1">>), Unversioned(<<"m1-v2">>)}

\* the (input_tokens, output_tokens) pairs of the records
RecordedTokens == {<<1000, 500>>, <<1, 2>>}

\* The pricing files.  Their model keys are written as the scraper writes
\* them, without version suffix, except in DefaultOnly.
DefaultOnly == {Row(PlainModel, "default", Some(3), Some(15))}

RegionOverride ==
    {Row(<<"m1">>, "default", Some(3), Some(15)),
     Row(<<"m1">>, "r1", Some(5), Some(20)),
     Row(<<"us", ".", "m1">>, "default", Some(4), Some(16))}

RegionOnly == {Row(<<"m1">>, "r1", Some(5), Some(20))}

ScopedProfiles ==
    {Row(<<"us", ".", "m1">>, "default", Some(4), Some(16)),
     Row(<<"global", ".", "m1">>, "default", Some(6), Some(30))}

PartialRates ==
    {Row(<<"m1">>, "default", Some(3), None),
     Row(<<"m1-v2">>, "default", None, None)}

PricingFiles == {DefaultOnly, RegionOverride, RegionOnly, ScopedProfiles, PartialRates}

\* the price tables StaticPricingProvider.refresh loads from them
PricingTables == {LoadPricingYaml(file) : file \in PricingFiles}

\* what ingest_objects_node does with one parsed record: add_usage under the
\* normalized model identifier, cost 0, the original identifier kept
RecordUsage(region, identity, original_model_id, tokens) ==
    /\ priced = None
    /\ usage.records < MaxUsages
    /\ usage' = [metrics |-> AddUsage(usage.metrics, region, identity,
                                      normalize_model_id(original_model_id),
                                      tokens[1], tokens[2], 0, original_model_id),
                 records |-> usage.records + 1,
                 recorded |->
                    [q \in DOMAIN usage.recorded \cup {<<original_model_id, region>>} |->
                        LET before == IF q \in DOMAIN usage.recorded
                                      THEN usage.recorded[q] ELSE <<0, 0>>
                        IN  IF q = <<original_model_id, region>>
                            THEN <<before[1] + tokens[1], before[2] + tokens[2]>>
                            ELSE before]]
    /\ UNCHANGED <<config, slack, runs, now, bucket, stores, pc, run_config, state, pricing,
                   opA, opB, opC, ops, merged, priced,
                   ingest, peer>>

\* apply_pricing on deep copies of the object: once with the table rates,
\* once more with the same table, then with the table other_rates; and with
\* the table other_rates on a copy never priced before.  rate holds what
\* get_rate answers under the table rates for every model and region.
PriceCalls(rates, other_rates) ==
    /\ priced = None
    /\ LET once == ApplyPricing(usage.metrics, rates, NoWarnings)
       IN  priced' = Some([rates |-> rates,
                           other_rates |-> other_rates,
                           rate |-> [q \in (RecordedModels \cup UnversionedModels)
                                              \X UsageRegions |->
                                        GetRate(rates, q[1], q[2])],
                           once |-> once,
                           twice |-> ApplyPricing(once.metrics, rates, NoWarnings),
                           changed |-> ApplyPricing(once.metrics, other_rates, NoWarnings),
                           fresh |-> ApplyPricing(usage.metrics, other_rates, NoWarnings)])
    /\ UNCHANGED <<config, slack, runs, now, bucket, stores, pc, run_config, state, pricing,
                   opA, opB, opC, ops, merged, usage,
                   ingest, peer>>

-----------------------------------------------------------------------------
(* The record loop as a value: objects of two records *)

TimestampChoices ==
    {NoTimestamp, NumberTimestamp, OtherText, EmptyText,
     IsoTimestamp(ParseDatehour(StartHour)), IsoTimestamp(OutOfWindowTs)}

CountChoices == {None, Some(0), Some(3)}

UsageChoices ==
    {None, Some(<< >>), Some([input_tokens |-> 5, output_tokens |-> 7]),
     Some([output_tokens |-> 7])}

RecordChoices ==
    {RawRec(timestamp, "arn:k1", inputTokenCount, outputTokenCount, body_usage) :
        timestamp \in TimestampChoices, inputTokenCount \in CountChoices,
        outputTokenCount \in CountChoices, body_usage \in UsageChoices}

\* a plain record of another identity, dated within the day or not at all
OtherChoices ==
    {RawRec(timestamp, "arn:k2", Some(1), Some(2), None) :
        timestamp \in {IsoTimestamp(ParseDatehour(StartHour)), NoTimestamp}}

IngestStart == [metrics |-> EmptyMetrics, warnings |-> NoWarnings, stats |-> NoStats]

\* parse_bedrock_records and the record loop of ingest_objects_node on an
\* object of two records, in a run of region r1 for the first report date
IngestText(first, second) ==
    /\ ingest = None
    /\ LET text == <<Line(first), Line(second)>>
           records == parse_bedrock_records(text).records
       IN  ingest' = Some([records |-> records,
                           after |-> IngestRecords(IngestStart, records, "r1",
                                                   DateOf(ParseDatehour(StartHour)))])
    /\ UNCHANGED <<config, slack, runs, now, bucket, stores, pc, run_config, state, pricing,
                   opA, opB, opC, ops, merged, usage, priced,
                   peer>>

-----------------------------------------------------------------------------
(* Specifications *)

Workflow ==
    \/ RegionRouter \/ LoadManifestNode \/ PlanScanNode \/ ListObjectsNode
    \/ FilterNewObjectsNode \/ IngestObjectsNode \/ UpdateManifestNode
    \/ AdvanceRegionNode \/ LoadSnapshotNode \/ RefreshPricingNode
    \/ ApplyPricingNode \/ VerifyResultsNode \/ RenderReportNode
    \/ WriteSnapshotNode \/ AppendCsvNode \/ PostReportNode

\* Runs on one region without --report-date, with and without
\* --force-reprocess; objects arrive and are overwritten.
Next ==
    \/ Tick
    \/ \E k \in ConfiguredKeys : Land(k)
    \/ \E k \in ConfiguredKeys : Rewrite(k)
    \/ \E f \in BOOLEAN : LoadConfigNode(f, None)
    \/ Workflow

Spec == Init /\ [][Next]_vars

\* The scan planner: runs of every kind, for today and for yesterday.
NextPlan ==
    \/ Tick
    \/ Land("k1")
    \/ \E f \in BOOLEAN, d \in {None, Some(0)} : LoadConfigNode(f, d)
    \/ Workflow

SpecPlan == Init /\ [][NextPlan]_vars

\* Repeated non-force runs without --report-date: every run reports on the
\* current day, no run is cut short, no object is overwritten.
NextIncr ==
    \/ Tick
    \/ \E k \in ConfiguredKeys : Land(k)
    \/ LoadConfigNode(FALSE, None)
    \/ Workflow

SpecIncr == Init /\ [][NextIncr]_vars

\* Runs over two regions, each with one object that may arrive, where a run
\* may abort on an unhandled error.
NextAbort ==
    \/ Tick
    \/ \E k \in {"k1", "k3"} : Land(k)
    \/ LoadConfigNode(FALSE, None)
    \/ Workflow
    \/ Abort

SpecAbort == InitRegions /\ [][NextAbort]_vars

\* Runs over two regions, each with one object that may arrive; no run is
\* cut short.
NextRegions ==
    \/ Tick
    \/ \E k \in {"k1", "k3"} : Land(k)
    \/ \E f \in BOOLEAN : LoadConfigNode(f, None)
    \/ Workflow

SpecRegions == InitRegions /\ [][NextRegions]_vars

\* Metrics objects built by add_usage calls, then merged.
NextMerge ==
    \/ \E operand \in {"a", "b", "c"}, region \in UsageRegions, identity \in UsageIdentities,
          model_id \in UsageModels, tokens \in UsageTokens :
            AddUsageCall(operand, region, identity, model_id, tokens, << >>)
    \/ MergeCalls

SpecMerge == Init /\ [][NextMerge]_vars

\* A Metrics object fed with records, then priced.
NextPricing ==
    \/ \E region \in UsageRegions, identity \in UsageIdentities,
          original_model_id \in RecordedModels, tokens \in RecordedTokens :
            RecordUsage(region, identity, original_model_id, tokens)
    \/ \E rates \in PricingTables :
          \E other_rates \in PricingTables \ {rates} : PriceCalls(rates, other_rates)

SpecPricing == Init /\ [][NextPricing]_vars

\* The same, with records whose modelId is an ARN without version suffix.
NextUnversioned ==
    \/ \E region \in UsageRegions, identity \in UsageIdentities,
          original_model_id \in UnversionedModels \cup {PlainModel} :
            RecordUsage(region, identity, original_model_id, <<1000, 500>>)
    \/ \E rates \in PricingTables :
          \E other_rates \in PricingTables \ {rates} : PriceCalls(rates, other_rates)

SpecUnversioned == Init /\ [][NextUnversioned]_vars

\* Runs over two regions, each with one object that may arrive, where a run
\* may abort on an unhandled error of the object store, the pricing file or
\* the snapshot store.
NextStore ==
    \/ Tick
    \/ \E k \in {"k1", "k3"} : Land(k)
    \/ \E f \in BOOLEAN : LoadConfigNode(f, None)
    \/ Workflow
    \/ Abort

SpecStore == InitRegions /\ [][NextStore]_vars

\* Runs on one region whose bucket receives a well-formed metadata file and
\* one with a broken line.
NextLogs ==
    \/ Tick
    \/ \E k \in {"k1", "k4"} : Land(k)
    \/ \E f \in BOOLEAN : LoadConfigNode(f, None)
    \/ Workflow

SpecLogs == Init /\ [][NextLogs]_vars

\* Runs on one region with two objects, where entries of the stored manifest
\* may lose their seen_at between runs.
NextPrune ==
    \/ Tick
    \/ \E k \in {"k1", "k2"} : Land(k)
    \/ \E f \in BOOLEAN : LoadConfigNode(f, None)
    \/ Workflow
    \/ \E k \in {"k1", "k2"}, value \in UndatedChoices : LoseSeenAt("r1", k, value)

SpecPrune == Init /\ [][NextPrune]_vars

\* Runs on one region whose bucket receives a metadata file, a request body
\* file, a response body file, the permission-check marker and a file of
\* another name.
NextListing ==
    \/ Tick
    \/ \E k \in {"k1", "k5", "k6", "k7", "k8"} : Land(k)
    \/ \E f \in BOOLEAN : LoadConfigNode(f, None)
    \/ Workflow

SpecListing == Init /\ [][NextListing]_vars

\* Two invocations on one region that may overlap, while time passes and
\* an object arrives.
NextOverlap ==
    \/ Tick
    \/ Land("k1")
    \/ LoadConfigNode(FALSE, None)
    \/ Workflow
    \/ Switch

SpecOverlap == Init /\ [][NextOverlap]_vars

\* the original_model_id arguments: none, or one of two raw identifiers
UsageOriginals == {<< >>, PlainModel, OtherVersion}

\* Metrics objects built by add_usage calls with and without an original
\* model identifier, then merged.
NextModelMap ==
    \/ \E operand \in {"a", "b", "c"}, model_id \in UsageModels, original \in UsageOriginals :
            AddUsageCall(operand, "r1", "arn:k1", model_id, <<1, 2>>, original)
    \/ MergeCalls

SpecModelMap == Init /\ [][NextModelMap]_vars

\* Runs on one region whose bucket receives a well-formed metadata file,
\* which may be overwritten, and one with a broken line.
NextRecord ==
    \/ Tick
    \/ \E k \in {"k1", "k4"} : Land(k)
    \/ Rewrite("k1")
    \/ \E f \in BOOLEAN : LoadConfigNode(f, None)
    \/ Workflow

SpecRecord == Init /\ [][NextRecord]_vars

\* Runs over any of the region lists, none cut short, where an object may
\* arrive in one of the regions.  graph.invoke runs node after node until END:
\* a run under way always takes its next step.
NextLoop ==
    \/ Land("k3")
    \/ \E f \in BOOLEAN : LoadConfigNode(f, None)
    \/ Workflow

\* the nodes build_graph adds
GraphNodes ==
    {"region_router", "load_manifest", "plan_scan", "list_objects", "filter_new_objects",
     "ingest_objects", "update_manifest", "advance_region", "load_snapshot",
     "refresh_pricing", "apply_pricing", "verify_results", "render_report",
     "write_snapshot", "append_csv", "post_report"}

\* the run under way leaves the node it is at, for another node or the end
NodeStep ==
    /\ pc \in GraphNodes
    /\ pc' \in GraphNodes \cup Between

SpecLoop == InitAnyRegions /\ [][NextLoop]_vars /\ WF_pc(NodeStep)

\* Objects of two records each, put through the record loop.
NextIngest ==
    \E record \in RecordChoices, other \in OtherChoices, swap \in BOOLEAN :
        IngestText(IF swap THEN other ELSE record, IF swap THEN record ELSE other)

SpecIngest == Init /\ [][NextIngest]_vars

\* Runs on one region, without a notifier, with one that delivers and with
\* one that fails, with and without --force-reprocess; the stored snapshot
\* may be damaged between two runs.
NextFaults ==
    \/ Tick
    \/ Land("k1")
    \/ \E f \in BOOLEAN : LoadConfigNode(f, None)
    \/ Workflow
    \/ \E d \in Days, kind \in DamageKinds : Damage(d, kind)

SpecFaults == InitDeps(<<"r1">>, {None, Some("ok"), Some("error")}) /\ [][NextFaults]_vars

-----------------------------------------------------------------------------
(* Properties of the stored aggregate *)

\* the tokens of the records of object k dated within report date d
RECURSIVE InDayTokens(_, _)
InDayTokens(records, d) ==
    IF records = << >> THEN 0
    ELSE LET r == Head(records)
             inDay == /\ r.timestamp.json = "string"
                      /\ ReportStart(d) <= r.timestamp.text[2]
                      /\ r.timestamp.text[2] < ReportEnd(d)
         IN  (IF inDay THEN TheOne(r.inputTokenCount) + TheOne(r.outputTokenCount) ELSE 0)
             + InDayTokens(Tail(records), d)

RECURSIVE SumInDay(_, _)
SumInDay(keys, d) ==
    IF keys = {} THEN 0
    ELSE LET k == CHOOSE x \in keys : TRUE
         IN  InDayTokens(KeyRecords[k], d) + SumInDay(keys \ {k}, d)

\* the tokens the stored snapshot of date d holds under the identity of object k
Contribution(d, k) ==
    IF snapshots[d] # None /\ KeyArn[k] \in DOMAIN TheOne(snapshots[d]).metrics.by_identity
    THEN TheOne(snapshots[d]).metrics.by_identity[KeyArn[k]].total_tokens
    ELSE 0

\* the run has written its snapshot and has only the CSV row and the
\* notification left
SnapshotWritten == pc \in {"append_csv", "post_report"}

\* C1: over non-force runs for one report date, an object whose key and etag
\* never change contributes its tokens to the stored daily aggregate at most
\* once.
C1_CountedAtMostOnce ==
    \A d \in Days : \A k \in ConfiguredKeys :
        bucket[k] <= 1 => Contribution(d, k) <= InDayTokens(KeyRecords[k], d)

\* C2: once a non-force run completes after the last object has landed, the
\* stored snapshot's total equals the tokens of all in-day records of all
\* objects.
C2_ConvergesToDailyTotal ==
    (SnapshotWritten /\ \A k \in ConfiguredKeys : bucket[k] # 0)
        => /\ snapshots[state.report_date] # None
           /\ TheOne(snapshots[state.report_date]).metrics.totals.total_tokens
                = SumInDay(ConfiguredKeys, state.report_date)

\* C3: after a run aborted, the next completed non-force run leaves every
\* object the manifests record as processed counted exactly once in the
\* stored snapshot.
C3_ExactlyOnceAfterAbort ==
    SnapshotWritten =>
        \A k \in ConfiguredKeys :
            (manifests[KeyRegion[k]] # None
             /\ k \in DOMAIN TheOne(manifests[KeyRegion[k]]).processed)
                => Contribution(state.report_date, k)
                     = InDayTokens(KeyRecords[k], state.report_date)

-----------------------------------------------------------------------------
(* The scan planner *)

\* C4: whenever the planner emits at least one prefix, the checkpoint it
\* hands on is min(report-day end hour, current hour); update_manifest
\* stores exactly that value as last_datehour, and no stored checkpoint is
\* later than the clock.
C4_CheckpointCappedAtNow ==
    [][ /\ (pc = "plan_scan" /\ pc' = "list_objects" /\ state'.scan_prefixes # << >>)
            => state'.scan_end_datehour =
                 Some(IF EndHour(state.report_date) <= HourOf(now)
                      THEN EndHour(state.report_date) ELSE HourOf(now))
        /\ (pc = "update_manifest" /\ pc' = "advance_region" /\ state.scan_prefixes # << >>)
            => TheOne(manifests'[CurrentRegion]).last_datehour = state.scan_end_datehour
        /\ \A r \in AllRegions :
            (manifests'[r] # None /\ TheOne(manifests'[r]).last_datehour # None)
                => ParseDatehour(TheOne(TheOne(manifests'[r]).last_datehour)) <= now'
      ]_vars

\* a run for the current day has stored the current hour, which lies before
\* the end of the report day
C4_Witness ==
    /\ pc = "advance_region"
    /\ state.scan_prefixes # << >>
    /\ manifests[CurrentRegion] # None
    /\ TheOne(manifests[CurrentRegion]).last_datehour = Some(HourOf(now))
    /\ HourOf(now) < EndHour(state.report_date)

C6_ScanStart ==
    pc = "list_objects" =>
        LET d == state.report_date
            cp == state.current_manifest.last_datehour
            day_start == d * HoursPerDay
            first == IF cp # None /\ ~run_config.force_reprocess
                     THEN Max(day_start, TheOne(cp) - state.current_manifest.lookback_hours)
                     ELSE day_start
            p == state.scan_prefixes
        IN  IF first <= EndHour(d) THEN p # << >> /\ p[1] = first ELSE p = << >>

\* a non-force run starts its scan at checkpoint - lookback, after the start
\* of the report day
C6_Witness ==
    /\ pc = "list_objects"
    /\ ~run_config.force_reprocess
    /\ state.current_manifest.last_datehour # None
    /\ state.scan_prefixes # << >>
    /\ state.scan_prefixes[1]
         = TheOne(state.current_manifest.last_datehour) - state.current_manifest.lookback_hours
    /\ state.scan_prefixes[1] > state.report_date * HoursPerDay

-----------------------------------------------------------------------------
(* The new-object filter and force mode *)

\* C7: filter_new_objects selects a listed object if and only if the run is
\* forced, or its key is absent from the manifest's processed map, or the
\* etag stored for the key differs from the listed one.
C7_SelectedIffNew ==
    [][ (pc = "filter_new_objects" /\ pc' # "filter_new_objects") =>
            \A i \in 1..Len(state.objects) :
                LET o == state.objects[i]
                    processed == state.current_manifest.processed
                IN  (\E j \in 1..Len(state'.new_objects) : state'.new_objects[j] = o)
                      <=> \/ run_config.force_reprocess
                          \/ o.key \notin DOMAIN processed
                          \/ processed[o.key].etag # o.etag
      ]_vars

\* a non-force run has selected an object whose key the manifest knows under
\* another etag, and has left out one it knows under the same etag
C7_Witness ==
    /\ pc = "ingest_objects"
    /\ ~run_config.force_reprocess
    /\ \E i \in 1..Len(state.new_objects) :
           /\ state.new_objects[i].key \in DOMAIN state.current_manifest.processed
           /\ state.current_manifest.processed[state.new_objects[i].key].etag
                # state.new_objects[i].etag
    /\ \E i \in 1..Len(state.objects) :
           /\ state.objects[i].key \in DOMAIN state.current_manifest.processed
           /\ state.current_manifest.processed[state.objects[i].key].etag = state.objects[i].etag
           /\ \A j \in 1..Len(state.new_objects) : state.new_objects[j] # state.objects[i]

\* the objects the bucket holds under the hours of report date d
Stored(d) ==
    {k \in ConfiguredKeys :
        bucket[k] # 0 /\ d * HoursPerDay <= KeyHour[k] /\ KeyHour[k] <= EndHour(d)}

\* the nodes after load_snapshot
AfterLoadSnapshot ==
    {"refresh_pricing", "apply_pricing", "verify_results", "render_report",
     "write_snapshot", "append_csv", "post_report"}

\* C8: a force run scans every hour of the report day, ingests every listed
\* object and merges no snapshot: its metrics, and the snapshot it writes,
\* hold the in-day tokens of the stored objects, each once, whatever the
\* manifest and the previous snapshot held.
C8_ForceDependsOnStorageOnly ==
    (run_config.force_reprocess /\ pc \in AfterLoadSnapshot) =>
        LET d == state.report_date
            by_identity == state.metrics.by_identity
        IN  /\ state.scan_prefixes = [i \in 1..HoursPerDay |-> d * HoursPerDay + i - 1]
            /\ state.new_objects = state.objects
            /\ {state.objects[i].key : i \in 1..Len(state.objects)} = Stored(d)
            /\ state.metrics.totals.total_tokens = SumInDay(Stored(d), d)
            /\ \A k \in ConfiguredKeys :
                (IF KeyArn[k] \in DOMAIN by_identity
                 THEN by_identity[KeyArn[k]].total_tokens ELSE 0)
                    = IF k \in Stored(d) THEN InDayTokens(KeyRecords[k], d) ELSE 0
            /\ SnapshotWritten =>
                /\ snapshots[d] # None
                /\ TheOne(snapshots[d]).metrics.totals.total_tokens = SumInDay(Stored(d), d)

\* a force run that has ingested objects is about to overwrite a snapshot
\* that already holds tokens
C8_Witness ==
    /\ run_config.force_reprocess
    /\ pc = "write_snapshot"
    /\ snapshots[state.report_date] # None
    /\ TheOne(snapshots[state.report_date]).metrics.totals.total_tokens > 0
    /\ state.metrics.totals.total_tokens > 0

-----------------------------------------------------------------------------
(* Metrics.merge *)

\* the token counts of a TokenStats
Tokens(s) == <<s.input_tokens, s.output_tokens, s.total_tokens>>

\* the token counts of a Metrics in every dimension
TokenView(m) ==
    [totals |-> Tokens(m.totals),
     by_region |-> [k \in DOMAIN m.by_region |-> Tokens(m.by_region[k])],
     by_identity |-> [k \in DOMAIN m.by_identity |-> Tokens(m.by_identity[k])],
     by_model |-> [k \in DOMAIN m.by_model |-> Tokens(m.by_model[k])],
     by_usage_key |-> [k \in DOMAIN m.by_usage_key |-> Tokens(m.by_usage_key[k])]]

\* C9: merge is commutative and associative on the token counts of totals
\* and of every entry of every dimension.
C9_MergeCommutesAndAssociates ==
    merged # None =>
        /\ TokenView(TheOne(merged).ab) = TokenView(TheOne(merged).ba)
        /\ TokenView(TheOne(merged).ab_c) = TokenView(TheOne(merged).a_bc)

\* three non-empty operands, two of them different with a triple in common
C9_Witness ==
    /\ merged # None
    /\ opA # EmptyMetrics /\ opB # EmptyMetrics /\ opC # EmptyMetrics
    /\ TokenView(opA) # TokenView(opB)
    /\ DOMAIN opA.by_usage_key \cap DOMAIN opB.by_usage_key # {}

\* the input and output tokens a map holds under a key; zero when it has none
InOut(map, k) ==
    IF k \in DOMAIN map THEN <<map[k].input_tokens, map[k].output_tokens>> ELSE <<0, 0>>

\* res holds, under every key of either map, the sum of the two
AdditiveOn(res, mine, theirs) ==
    /\ DOMAIN res = DOMAIN mine \cup DOMAIN theirs
    /\ \A k \in DOMAIN res :
        /\ res[k].input_tokens = InOut(mine, k)[1] + InOut(theirs, k)[1]
        /\ res[k].output_tokens = InOut(mine, k)[2] + InOut(theirs, k)[2]

\* C10: after self.merge(other) every key of every dimension holds self's
\* previous input and output tokens plus other's; merging an empty Metrics
\* changes nothing and merging into an empty Metrics yields other's token
\* counts.
C10_MergeAdditivePerKey ==
    merged # None =>
        LET res == TheOne(merged).ab
        IN  /\ res.totals.input_tokens = opA.totals.input_tokens + opB.totals.input_tokens
            /\ res.totals.output_tokens = opA.totals.output_tokens + opB.totals.output_tokens
            /\ AdditiveOn(res.by_region, opA.by_region, opB.by_region)
            /\ AdditiveOn(res.by_identity, opA.by_identity, opB.by_identity)
            /\ AdditiveOn(res.by_model, opA.by_model, opB.by_model)
            /\ AdditiveOn(res.by_usage_key, opA.by_usage_key, opB.by_usage_key)
            /\ opB = EmptyMetrics => res = opA
            /\ opA = EmptyMetrics => TokenView(res) = TokenView(opB)

\* the operands share an identity, self has an identity other lacks and
\* other has a region self lacks
C10_Witness ==
    /\ merged # None
    /\ DOMAIN opA.by_identity \cap DOMAIN opB.by_identity # {}
    /\ DOMAIN opA.by_identity \ DOMAIN opB.by_identity # {}
    /\ DOMAIN opB.by_region \ DOMAIN opA.by_region # {}

CostsKept(after, before) ==
    \A k \in DOMAIN after :
        after[k].cost_usd = IF k \in DOMAIN before THEN before[k].cost_usd ELSE 0

MergeKeepsCosts(after, self) ==
    /\ after.totals.cost_usd = self.totals.cost_usd
    /\ CostsKept(after.by_region, self.by_region)
    /\ CostsKept(after.by_identity, self.by_identity)
    /\ CostsKept(after.by_model, self.by_model)
    /\ CostsKept(after.by_usage_key, self.by_usage_key)

\* C11: merge discards the incoming side's cost.  After self.merge(other)
\* the cost of self's totals, of every entry of every dimension and of every
\* granular entry is what it was before the merge, whatever costs other
\* carries; an entry the merge creates has cost 0.  Checked for operands
\* whose dimension costs come from add_usage and for operands priced by
\* apply_pricing, whose granular entries carry costs too.
C11_MergeDiscardsIncomingCost ==
    merged # None =>
        /\ MergeKeepsCosts(TheOne(merged).ab, opA)
        /\ MergeKeepsCosts(TheOne(merged).ba, opB)
        /\ MergeKeepsCosts(TheOne(merged).pab, TheOne(merged).pa)

\* both priced operands hold a granular entry under the same key with a
\* non-zero cost, and other holds a priced entry self lacks
C11_Witness ==
    /\ merged # None
    /\ LET pa == TheOne(merged).pa
           pb == TheOne(merged).pb
       IN  /\ pa.totals.cost_usd > 0
           /\ \E k \in DOMAIN pa.by_usage_key \cap DOMAIN pb.by_usage_key :
                  pa.by_usage_key[k].cost_usd > 0 /\ pb.by_usage_key[k].cost_usd > 0
           /\ \E k \in DOMAIN pb.by_usage_key \ DOMAIN pa.by_usage_key :
                  pb.by_usage_key[k].cost_usd > 0

RECURSIVE SumTokens(_, _)

\* <<input, output, total>> summed over the entries of map under keys
SumTokens(map, keys) ==
    IF keys = {} THEN <<0, 0, 0>>
    ELSE LET k == CHOOSE x \in keys : TRUE
             rest == SumTokens(map, keys \ {k})
         IN  <<rest[1] + map[k].input_tokens,
               rest[2] + map[k].output_tokens,
               rest[3] + map[k].total_tokens>>

TotalsMatchDimensions(m) ==
    /\ Tokens(m.totals) = SumTokens(m.by_region, DOMAIN m.by_region)
    /\ Tokens(m.totals) = SumTokens(m.by_identity, DOMAIN m.by_identity)

\* C12: after any sequence of add_usage calls on a fresh Metrics, the
\* input, output and total tokens of totals equal the sums of the same
\* fields over all by_region entries and over all by_identity entries.
C12_TotalsEqualDimensionSums ==
    /\ TotalsMatchDimensions(opA)
    /\ TotalsMatchDimensions(opB)
    /\ TotalsMatchDimensions(opC)

\* three add_usage calls on one Metrics, two of them on the same region and
\* two on the same identity
C12_Witness ==
    /\ ops = MaxOps
    /\ opB = EmptyMetrics /\ opC = EmptyMetrics
    /\ Cardinality(DOMAIN opA.by_region) = 2
    /\ Cardinality(DOMAIN opA.by_identity) = 2

AllStats(m) ==
    {m.totals} \cup Range(m.by_region) \cup Range(m.by_identity)
        \cup Range(m.by_model) \cup Range(m.by_usage_key)

TotalIsInPlusOut(m) ==
    \A s \in AllStats(m) : s.total_tokens = s.input_tokens + s.output_tokens

\* C13: in every TokenStats reachable from an empty Metrics through
\* add_usage and merge (totals, every dimension entry, every granular
\* entry), total_tokens = input_tokens + output_tokens.
C13_TotalIsInputPlusOutput ==
    /\ \A m \in {opA, opB, opC} : TotalIsInPlusOut(m)
    /\ merged # None =>
          \A m \in {TheOne(merged).ab, TheOne(merged).ba,
                    TheOne(merged).ab_c, TheOne(merged).a_bc} : TotalIsInPlusOut(m)

\* a merge of two operands that both hold usage with output tokens
C13_Witness ==
    /\ merged # None
    /\ opA.totals.output_tokens > 0 /\ opB.totals.output_tokens > 0
    /\ TheOne(merged).ab.totals.total_tokens
         = opA.totals.total_tokens + opB.totals.total_tokens

\* the four results of apply_pricing the pricing calls leave
PricedResults ==
    {TheOne(priced).once, TheOne(priced).twice, TheOne(priced).changed, TheOne(priced).fresh}

\* C14: apply_pricing never accumulates stale cost.  The costs it leaves
\* depend on the token counts and the price table of the call only: a second
\* call with the same table leaves what the first left, and a call with a
\* changed table leaves what that table gives on an object never priced
\* before.
C14_PricingNeverAccumulates ==
    priced # None =>
        /\ TheOne(priced).twice.metrics = TheOne(priced).once.metrics
        /\ TheOne(priced).changed.metrics = TheOne(priced).fresh.metrics

\* the first table priced something, and the changed table prices the same
\* usage differently, still above zero
C14_Witness ==
    /\ priced # None
    /\ TheOne(priced).once.metrics.totals.cost_usd > 0
    /\ TheOne(priced).changed.metrics.totals.cost_usd > 0
    /\ TheOne(priced).changed.metrics.totals.cost_usd
         # TheOne(priced).once.metrics.totals.cost_usd

RECURSIVE SumCost(_, _)

\* the costs of the entries of map under keys, summed
SumCost(map, keys) ==
    IF keys = {} THEN 0
    ELSE LET k == CHOOSE x \in keys : TRUE
         IN  map[k].cost_usd + SumCost(map, keys \ {k})

CostsRollUp(m) ==
    LET granular == m.by_usage_key
        carrying(pos, x) == {k \in DOMAIN granular : k[pos] = x}
    IN  /\ m.totals.cost_usd = SumCost(granular, DOMAIN granular)
        /\ \A x \in DOMAIN m.by_region :
              m.by_region[x].cost_usd = SumCost(granular, carrying(1, x))
        /\ \A x \in DOMAIN m.by_identity :
              m.by_identity[x].cost_usd = SumCost(granular, carrying(2, x))
        /\ \A x \in DOMAIN m.by_model :
              m.by_model[x].cost_usd = SumCost(granular, carrying(3, x))

\* C15: after apply_pricing the cost of totals is the sum of the costs of
\* all granular entries, and the cost of each by_region, by_identity and
\* by_model entry is the sum of the costs of the granular entries carrying
\* that region, identity or model.
C15_CostsRollUpFromGranular ==
    priced # None => \A res \in PricedResults : CostsRollUp(res.metrics)

\* two priced granular entries of one region under different identities and
\* different models
C15_Witness ==
    /\ priced # None
    /\ LET granular == TheOne(priced).once.metrics.by_usage_key
       IN  \E k1 \in DOMAIN granular, k2 \in DOMAIN granular :
              /\ k1[1] = k2[1] /\ k1[2] # k2[2] /\ k1[3] # k2[3]
              /\ granular[k1].cost_usd > 0 /\ granular[k2].cost_usd > 0

\* the identifier the records under granular key k were first seen with
OriginalOf(k) == usage.metrics.model_id_map[k[3]]

\* the table rates holds no rate model_id could be priced with in region:
\* its pricing key is not in the table, or the key has neither an entry for
\* the region nor a default entry
NoRateIn(rates, model_id, region) ==
    LET key == get_pricing_model_key(model_id)
    IN  \/ key \notin DOMAIN rates
        \/ (region \notin DOMAIN rates[key] /\ "default" \notin DOMAIN rates[key])

\* C16: a model with no rate in the price table is unpriced.  For every
\* model identifier recorded in a region for which the table has no rate,
\* pricing completes, the granular entries holding that usage have cost 0
\* and the normalized identifier is in warnings.unpriced_models; the usage
\* is never given the rate of another model or version.
C16_NoRateMeansUnpriced ==
    priced # None =>
        LET res == TheOne(priced).once
            granular == res.metrics.by_usage_key
        IN  \A q \in DOMAIN usage.recorded :
               NoRateIn(TheOne(priced).rates, q[1], q[2]) =>
                   /\ \A k \in DOMAIN granular :
                         (k[1] = q[2] /\ k[3] = normalize_model_id(q[1]))
                            => granular[k].cost_usd = 0
                   /\ normalize_model_id(q[1]) \in res.warnings.unpriced_models

\* C17: get_rate for a pricing key and a region.  When the key has an entry
\* for the region, that entry is returned, also when a default entry exists;
\* otherwise the key's default entry is returned, for any region; when the
\* key has neither, or is not in the table, there is no rate.
C17_RegionThenDefaultThenNone ==
    priced # None =>
        \A q \in RecordedModels \X UsageRegions :
            LET rates == TheOne(priced).rates
                key == get_pricing_model_key(q[1])
                answer == TheOne(priced).rate[q]
            IN  /\ (key \in DOMAIN rates /\ q[2] \in DOMAIN rates[key])
                      => answer = Some(rates[key][q[2]])
                /\ (key \in DOMAIN rates /\ q[2] \notin DOMAIN rates[key]
                        /\ "default" \in DOMAIN rates[key])
                      => answer = Some(rates[key]["default"])
                /\ (key \in DOMAIN rates /\ q[2] \notin DOMAIN rates[key]
                        /\ "default" \notin DOMAIN rates[key])
                      => answer = None
                /\ key \notin DOMAIN rates => answer = None

\* a table where one key has a region entry next to a different default
\* entry: the region is answered with its own entry, the other region with
\* the default
C17_Witness ==
    /\ priced # None
    /\ LET rates == TheOne(priced).rates
           key == get_pricing_model_key(PlainModel)
       IN  /\ key \in DOMAIN rates
           /\ {"r1", "default"} \subseteq DOMAIN rates[key]
           /\ "r2" \notin DOMAIN rates[key]
           /\ rates[key]["r1"] # rates[key]["default"]
           /\ TheOne(priced).rate[<<PlainModel, "r1">>] = Some(rates[key]["r1"])
           /\ TheOne(priced).rate[<<PlainModel, "r2">>] = Some(rates[key]["default"])

\* the tokens the by_model entry of the normalized identifier holds
BucketTokens(model_id) ==
    LET bucket_key == normalize_model_id(model_id)
    IN  IF bucket_key \in DOMAIN usage.metrics.by_model
        THEN <<usage.metrics.by_model[bucket_key].input_tokens,
               usage.metrics.by_model[bucket_key].output_tokens>>
        ELSE <<0, 0>>

RecordedTokensOf(model_id) ==
    LET of(region) == IF <<model_id, region>> \in DOMAIN usage.recorded
                      THEN usage.recorded[<<model_id, region>>] ELSE <<0, 0>>
    IN  <<of("r1")[1] + of("r2")[1], of("r1")[2] + of("r2")[2]>>

\* profiles of different scopes have different aggregation keys and
\* different pricing keys
ScopesGiveDistinctKeys ==
    \A s1 \in InferenceProfileScopes, s2 \in InferenceProfileScopes :
        s1 # s2 =>
            /\ normalize_model_id(Profile(s1)) # normalize_model_id(Profile(s2))
            /\ get_pricing_model_key(Profile(s1)) # get_pricing_model_key(Profile(s2))

\* C18: two inference-profile identifiers that differ only by their scope
\* prefix (us, eu, global, apac) normalize to different aggregation keys and
\* to different pricing keys.  The by_model entry of a profile holds the
\* tokens recorded under that profile only, each profile is priced with the
\* rate of its own key, and a profile whose key is not in the table has no
\* rate also when another scope of the same model has one.
C18_ScopesKeptApart ==
    /\ ScopesGiveDistinctKeys
    /\ \A s \in {"us", "global"} : BucketTokens(Profile(s)) = RecordedTokensOf(Profile(s))
    /\ priced # None =>
          \A s \in {"us", "global"}, region \in UsageRegions :
              LET rates == TheOne(priced).rates
                  key == get_pricing_model_key(Profile(s))
                  answer == TheOne(priced).rate[<<Profile(s), region>>]
              IN  IF key \in DOMAIN rates
                  THEN answer \subseteq Range(rates[key]) /\ answer # None
                  ELSE answer = None

\* usage recorded under both scopes, priced once with a table that holds
\* different rates for the two and once with a table that holds one only
C18_Witness ==
    /\ priced # None
    /\ {Profile("us"), Profile("global")} \subseteq {q[1] : q \in DOMAIN usage.recorded}
    /\ TheOne(priced).rate[<<Profile("us"), "r1">>] # None
    /\ TheOne(priced).rate[<<Profile("global"), "r1">>] # None
    /\ TheOne(priced).rate[<<Profile("us"), "r1">>]
         # TheOne(priced).rate[<<Profile("global"), "r1">>]
    /\ TheOne(priced).changed.metrics.by_model[normalize_model_id(Profile("us"))].cost_usd > 0
    /\ TheOne(priced).changed.metrics.by_model[normalize_model_id(Profile("global"))].cost_usd = 0

\* C19: the cost of a priced granular entry is (input_tokens / 1000) *
\* input_per_1k + (output_tokens / 1000) * output_per_1k.  Costs are held in
\* millionths of a dollar and rates in thousandths of a dollar per 1000
\* tokens, so the cost is input_tokens * input_per_1k + output_tokens *
\* output_per_1k; 1000 input and 500 output tokens at 0.003 and 0.015 cost
\* 10500 millionths, 0.0105.
C19_CostFormula ==
    priced # None =>
        LET granular == TheOne(priced).once.metrics.by_usage_key
        IN  \A k \in DOMAIN granular :
               LET answer == TheOne(priced).rate[<<OriginalOf(k), k[1]>>]
               IN  /\ answer # None =>
                      granular[k].cost_usd
                        = granular[k].input_tokens * TheOne(answer).input_per_1k
                          + granular[k].output_tokens * TheOne(answer).output_per_1k
                   /\ (/\ answer # None
                       /\ granular[k].input_tokens = 1000
                       /\ granular[k].output_tokens = 500
                       /\ TheOne(answer).input_per_1k = 3
                       /\ TheOne(answer).output_per_1k = 15)
                      => granular[k].cost_usd = 10500

\* a granular entry of 1000 input and 500 output tokens priced at 3 and 15
C19_Witness ==
    /\ priced # None
    /\ LET granular == TheOne(priced).once.metrics.by_usage_key
       IN  \E k \in DOMAIN granular :
              /\ granular[k].input_tokens = 1000 /\ granular[k].output_tokens = 500
              /\ TheOne(priced).rate[<<OriginalOf(k), k[1]>>] = Some(PriceRate(3, 15))
              /\ granular[k].cost_usd = 10500

\* an object of the listing is new to the manifest the region loaded
SomeObjectIsNew ==
    \E i \in DOMAIN state.objects :
        IsNew(state.current_manifest.processed, run_config.force_reprocess, state.objects[i])

\* C20: for each configured region the stages run in the order
\* load_manifest, plan_scan, list_objects, filter_new_objects, then
\* ingest_objects exactly when the region has at least one new object, then
\* update_manifest, then advance_region.  update_manifest runs for every
\* region, also for one with nothing new: advance_region is entered from
\* update_manifest only, with the region's manifest saved, and the region
\* index moves only there, by one.
C20_RegionStagesInOrder ==
    [][pc' # pc =>
        /\ pc = "region_router" /\ state.region_index < Len(Regions)
              => /\ pc' = "load_manifest"
                 /\ state'.current_region = Regions[state.region_index + 1]
        /\ pc = "load_manifest" => pc' = "plan_scan"
        /\ pc = "plan_scan" => pc' = "list_objects"
        /\ pc = "list_objects" => pc' = "filter_new_objects"
        /\ pc = "filter_new_objects"
              => pc' = IF SomeObjectIsNew THEN "ingest_objects" ELSE "update_manifest"
        /\ pc = "ingest_objects" => pc' = "update_manifest"
        /\ pc = "update_manifest"
              => /\ pc' = "advance_region"
                 /\ manifests'[CurrentRegion] = Some(state'.current_manifest)
        /\ pc = "advance_region"
              => /\ pc' = "region_router"
                 /\ state'.region_index = state.region_index + 1
        /\ pc' = "ingest_objects" => pc = "filter_new_objects"
        /\ pc' = "update_manifest" => pc \in {"filter_new_objects", "ingest_objects"}
        /\ pc' = "advance_region" => pc = "update_manifest"
        /\ pc \in {"region_router", "load_manifest", "plan_scan", "list_objects",
                    "filter_new_objects", "ingest_objects", "update_manifest"}
              => state'.region_index = state.region_index]_vars

\* the second region has passed update_manifest with nothing new, after the
\* first region ingested an object
C20_Witness ==
    /\ pc = "advance_region"
    /\ state.region_index = 1
    /\ state.new_objects = << >>
    /\ state.stats.objects_processed > 0
    /\ manifests[CurrentRegion] = Some(state.current_manifest)

\* C21: the stages after the region loop start only when every configured
\* region has been processed (the region index has reached the number of
\* regions), and they run in the order load_snapshot, refresh_pricing,
\* apply_pricing, verify_results, render_report, write_snapshot, append_csv,
\* post_report.  Pricing is therefore applied after the snapshot merge, and
\* the snapshot of the report date is stored when post_report is entered.
C21_PostRegionStagesInOrder ==
    [][pc' # pc =>
        /\ pc' = "load_snapshot"
              => /\ pc = "region_router"
                 /\ state.region_index = Len(Regions)
        /\ pc = "region_router" /\ state.region_index >= Len(Regions)
              => pc' = "load_snapshot"
        /\ pc = "load_snapshot" => pc' = "refresh_pricing"
        /\ pc = "refresh_pricing" => pc' = "apply_pricing"
        /\ pc = "apply_pricing" => pc' = "verify_results"
        /\ pc = "verify_results" => pc' = "render_report"
        /\ pc = "render_report" => pc' = "write_snapshot"
        /\ pc = "write_snapshot" => pc' = "append_csv"
        /\ pc = "append_csv" => pc' = "post_report"
        /\ pc = "post_report" => pc' = "END"
        /\ pc' = "refresh_pricing" => pc = "load_snapshot"
        /\ pc' = "apply_pricing" => pc = "refresh_pricing"
        /\ pc' = "verify_results" => pc = "apply_pricing"
        /\ pc' = "render_report" => pc = "verify_results"
        /\ pc' = "write_snapshot" => pc = "render_report"
        /\ pc' = "append_csv" => pc = "write_snapshot"
        /\ pc' = "post_report"
              => /\ pc = "append_csv"
                 /\ state'.report_snapshot # None
                 /\ snapshots'[state'.report_date] = state'.report_snapshot
        /\ pc' = "END" => pc = "post_report"]_vars

\* post_report is reached in a run over two regions that ingested an object
\* in each of them
C21_Witness ==
    /\ pc = "post_report"
    /\ Len(Regions) = 2
    /\ state.region_index = 2
    /\ state.stats.objects_processed = 2
    /\ snapshots[state.report_date] = state.report_snapshot

\* the file stored for the report date of the run is damaged or of another
\* schema version
StoredSnapshotUnusable ==
    /\ snapshots[state.report_date] # None
    /\ ~Intact(TheOne(snapshots[state.report_date]))

\* C22: a stored snapshot that is corrupted or has another schema_version
\* than the one written is treated as if no snapshot existed: load_snapshot
\* does not end the run and leaves the current Metrics unchanged.
C22_UnusableSnapshotAsAbsent ==
    [][pc = "load_snapshot" /\ StoredSnapshotUnusable
          => /\ pc' = "refresh_pricing"
             /\ state'.metrics = state.metrics]_vars

\* the sums of input tokens, output tokens, their total and the cost over
\* the entries of map differ from totals
DiffersFromTotals(map, totals) ==
    LET sum == SumTokens(map, DOMAIN map)
    IN  \/ sum[1] # totals.input_tokens
        \/ sum[2] # totals.output_tokens
        \/ sum[1] + sum[2] # totals.total_tokens
        \/ SumCost(map, DOMAIN map) # totals.cost_usd

\* C23: verify_results adds by_region_mismatch exactly when the sum over
\* by_region differs from totals and by_identity_mismatch exactly when the
\* sum over by_identity differs from totals, and nothing else; it changes no
\* metrics and goes on to render_report.  With a mismatch recorded the run
\* still renders, stores the snapshot and reaches post_report, and ends in
\* failure only when the notifier fails to deliver.
C23_MismatchWarnedNeverFatal ==
    [][pc' # pc =>
        /\ pc = "verify_results"
              => /\ state'.warnings.verification_errors
                      = state.warnings.verification_errors
                        \cup (IF DiffersFromTotals(state.metrics.by_region, state.metrics.totals)
                              THEN {"by_region_mismatch"} ELSE {})
                        \cup (IF DiffersFromTotals(state.metrics.by_identity, state.metrics.totals)
                              THEN {"by_identity_mismatch"} ELSE {})
                 /\ state'.metrics = state.metrics
                 /\ pc' = "render_report"
        /\ state.warnings.verification_errors # {}
              => /\ pc = "render_report"
                    => /\ pc' = "write_snapshot"
                       /\ TheOne(state'.report_snapshot).warnings.verification_errors
                             = state.warnings.verification_errors
                 /\ pc = "write_snapshot"
                    => /\ pc' = "append_csv"
                       /\ snapshots'[state.report_date] = state.report_snapshot
                 /\ pc = "append_csv" => pc' = "post_report"
                 /\ pc = "post_report" /\ slack # Some("error") => pc' = "END"]_vars

\* a run whose identity sum alone differs from the totals has stored its
\* snapshot, with the warning in it, and is about to notify
C23_Witness ==
    /\ pc = "post_report"
    /\ slack = Some("ok")
    /\ state.warnings.verification_errors = {"by_identity_mismatch"}
    /\ DiffersFromTotals(state.metrics.by_identity, state.metrics.totals)
    /\ ~DiffersFromTotals(state.metrics.by_region, state.metrics.totals)
    /\ snapshots[state.report_date] # None
    /\ TheOne(snapshots[state.report_date]).warnings.verification_errors
          = {"by_identity_mismatch"}

\* C24: when post_message raises, post_report ends the run in failure: the
\* node is not run again and no other node follows; the snapshot stored
\* before is left as it is.  Without a notifier, and with one that delivers,
\* the run completes.  No other node depends on the notifier.
C24_NotificationFailureIsFatal ==
    [][pc' # pc =>
        /\ pc = "post_report" /\ slack = Some("error")
              => /\ pc' = "failed"
                 /\ stores' = stores
        /\ pc = "post_report" /\ slack = None => pc' = "END"
        /\ pc = "post_report" /\ slack = Some("ok") => pc' = "END"
        /\ pc' = "failed" /\ pc # "post_report"
              => /\ pc = "load_snapshot"
                 /\ snapshots[state.report_date] = Some(Scalar)]_vars

\* a run whose notifier raised has ended in failure, with its snapshot stored
C24_Witness ==
    /\ pc = "failed"
    /\ slack = Some("error")
    /\ runs = 1
    /\ snapshots[DateOf(now)] # None

\* the timestamp field is absent, not a string, or not ISO-8601 text
Undated(record) ==
    record.timestamp \in {NoTimestamp, NumberTimestamp, OtherText, EmptyText}

\* C25: a record whose timestamp is absent, not a string or not ISO-8601 is
\* skipped without error: the metrics, the used-record count and the
\* missing-token warning come out as if the object held only its other
\* records, records_skipped counts one per such record, and every record of
\* the object is still looked at.
C25_UndatedRecordSkipped ==
    ingest # None =>
        LET records == TheOne(ingest).records
            after == TheOne(ingest).after
            dated == SelectSeq(records, LAMBDA r : ~Undated(r))
            others == IngestRecords(IngestStart, dated, "r1", DateOf(ParseDatehour(StartHour)))
        IN  /\ after.metrics = others.metrics
            /\ after.stats.records_used = others.stats.records_used
            /\ after.warnings.missing_token_counts = others.warnings.missing_token_counts
            /\ after.warnings.records_skipped = Len(records) - Len(dated)
            /\ after.stats.records_parsed = Len(records)

\* the first record of an object has text that is no timestamp and is
\* skipped, the second one is counted
C25_Witness ==
    /\ ingest # None
    /\ TheOne(ingest).records[1].timestamp = OtherText
    /\ TheOne(ingest).records[1].inputTokenCount = Some(3)
    /\ TheOne(ingest).records[2].timestamp = IsoTimestamp(ParseDatehour(StartHour))
    /\ TheOne(ingest).records[2].inputTokenCount = Some(1)
    /\ TheOne(ingest).records[2].outputTokenCount = Some(2)
    /\ TheOne(ingest).after.warnings.records_skipped = 1
    /\ TheOne(ingest).after.stats.records_used = 1
    /\ TheOne(ingest).after.metrics.totals.total_tokens = 3

\* an object about to be ingested has a line that is not JSON
MalformedLineAhead ==
    \E i \in DOMAIN state.new_objects :
        \E j \in DOMAIN KeyText[state.new_objects[i].key] :
            ~KeyText[state.new_objects[i].key][j].parses

\* the tokens of the lines of object k that are JSON
ParsableTokens(k) ==
    LET lines == SelectSeq(KeyText[k], LAMBDA line : line.parses)
    IN  InDayTokens([i \in DOMAIN lines |-> lines[i].record], state.report_date)

\* C26: a malformed line inside a log object is recovered locally: the run
\* goes on from ingest_objects to update_manifest, and the other records of
\* the object are ingested.
C26_MalformedLineRecovered ==
    [][pc = "ingest_objects" /\ pc' # pc /\ MalformedLineAhead
          => /\ pc' = "update_manifest"
             /\ \A i \in DOMAIN state.new_objects :
                   LET k == state.new_objects[i].key
                   IN  /\ KeyArn[k] \in DOMAIN state'.metrics.by_identity
                       /\ state'.metrics.by_identity[KeyArn[k]].total_tokens
                             = ParsableTokens(k)]_vars

\* the nodes that call the object store: head and get in load_manifest, list
\* in list_objects, get in ingest_objects, put in update_manifest
StoreNodes == {"load_manifest", "list_objects", "ingest_objects", "update_manifest"}

\* the regions whose manifest the current run has saved before the region it
\* is working on
SavedBefore == {Regions[i] : i \in 1..state.region_index}

\* C27: a failure of the object store ends the run at once: the failing node
\* is left for "failed" and no node runs until the next invocation.  The
\* failure leaves the stored manifests and snapshots as they are, and the
\* manifest of the region being processed has not been saved by this run:
\* a manifest is saved only by update_manifest completing for its region,
\* once per run, and a snapshot only by write_snapshot completing.
C27_StoreFailureAborts ==
    [][/\ pc \in StoreNodes /\ pc' = "failed"
            => /\ stores' = stores
               /\ CurrentRegion \notin SavedBefore
       /\ \A r \in AllRegions :
            manifests'[r] # manifests[r]
               => /\ pc = "update_manifest" /\ pc' = "advance_region"
                  /\ r = CurrentRegion
                  /\ r = Regions[state.region_index + 1]
                  /\ r \notin SavedBefore
       /\ snapshots' # snapshots => pc = "write_snapshot" /\ pc' = "append_csv"
       /\ pc = "failed" /\ pc' # pc => pc' = "region_router" /\ runs' = runs + 1]_vars

\* the first run has failed while its second region was being processed:
\* the first region's manifest is saved, the second one's is not, and no
\* snapshot is stored
C27_Witness ==
    /\ pc = "failed"
    /\ runs = 1
    /\ bucket["k1"] # 0 /\ bucket["k3"] # 0
    /\ manifests["r1"] # None
    /\ manifests["r2"] = None
    /\ \A d \in Days : snapshots[d] = None

\* the record is dated within the report day of the record loop
InDay(record) == record.timestamp = IsoTimestamp(ParseDatehour(StartHour))

\* the count of a record by the two tiers: the structured field, else the
\* field of the usage object of the response body, else nothing
TieredCount(structured, record, key) ==
    IF structured # None THEN structured
    ELSE IF record.usage # None /\ key \in DOMAIN TheOne(record.usage)
         THEN Some(TheOne(record.usage)[key])
    ELSE None

TieredInput(record) == TieredCount(record.inputTokenCount, record, "input_tokens")

TieredOutput(record) == TieredCount(record.outputTokenCount, record, "output_tokens")

\* a count was read from the usage object
FallbackUsed(record) ==
    \/ record.inputTokenCount = None /\ TieredInput(record) # None
    \/ record.outputTokenCount = None /\ TieredOutput(record) # None

\* the number of records of the sequence that satisfy Test
CountRecords(records, Test(_)) == Cardinality({i \in DOMAIN records : Test(records[i])})

RECURSIVE SumSeq(_)

\* the sum of a sequence of numbers
SumSeq(numbers) == IF numbers = << >> THEN 0 ELSE Head(numbers) + SumSeq(Tail(numbers))

\* the sum of Count over the records of the sequence
SumRecords(records, Count(_)) == SumSeq([i \in DOMAIN records |-> Count(records[i])])

\* C28: for every record counted, each token count is the structured field
\* when present, else the field of the usage object, else zero; and the
\* record is flagged in warnings.missing_token_counts when a count is found
\* in neither tier or when the usage object was used.
C28_MissingCountFlagged ==
    ingest # None =>
        LET counted == SelectSeq(TheOne(ingest).records, InDay)
            after == TheOne(ingest).after
            Flagged(r) == TieredInput(r) = None \/ TieredOutput(r) = None \/ FallbackUsed(r)
        IN  /\ after.metrics.totals.input_tokens
                  = SumRecords(counted, LAMBDA r : OrZero(TieredInput(r)))
            /\ after.metrics.totals.output_tokens
                  = SumRecords(counted, LAMBDA r : OrZero(TieredOutput(r)))
            /\ after.warnings.missing_token_counts >= CountRecords(counted, Flagged)

\* the entry names an instant at or after the cutoff
DatedSince(entry, cutoff) ==
    /\ entry.seen_at.json = "string"
    /\ entry.seen_at.text # << >>
    /\ entry.seen_at.text[1] = "iso"
    /\ entry.seen_at.text[2] >= cutoff

\* C29: every manifest document a run writes holds exactly those entries of
\* the manifest in memory whose seen_at is not older than the time of the
\* save minus lookbackHours: older entries and entries whose seen_at is
\* missing or cannot be parsed are dropped, the others are kept with key and
\* etag unchanged.
C29_SavedManifestPruned ==
    [][\A r \in AllRegions :
          (pc \notin Between /\ manifests'[r] # manifests[r]) =>
              LET cutoff == now - LookbackHours * TicksPerHour
                  before == state.current_manifest.processed
                  saved == TheOne(manifests'[r]).processed
              IN  /\ manifests'[r] # None
                  /\ \A k \in DOMAIN saved :
                        /\ k \in DOMAIN before
                        /\ saved[k] = before[k]
                        /\ DatedSince(saved[k], cutoff)
                  /\ \A k \in DOMAIN before :
                        DatedSince(before[k], cutoff) => k \in DOMAIN saved]_vars

\* a save has just dropped the entry of a delivered object (too old or
\* undated) and kept another, seen exactly at the cutoff
C29_Witness ==
    /\ pc = "advance_region"
    /\ manifests["r1"] = Some(state.current_manifest)
    /\ bucket["k1"] # 0
    /\ "k1" \notin DOMAIN state.current_manifest.processed
    /\ "k2" \in DOMAIN state.current_manifest.processed
    /\ DatedSince(state.current_manifest.processed["k2"], now - LookbackHours * TicksPerHour)
    /\ ~DatedSince(state.current_manifest.processed["k2"],
                   now - LookbackHours * TicksPerHour + 1)

\* a save is about to drop an entry that has no usable seen_at
C29_UndatedBeforeSave ==
    /\ pc = "update_manifest"
    /\ \E k \in DOMAIN state.current_manifest.processed :
          SeenAt(state.current_manifest.processed[k]) = None

\* the basenames timestamp_hash.json and timestamp_hash.json.gz
MetadataNames == {<<"ts", "_", "hex", ".json">>, <<"ts", "_", "hex", ".json", ".gz">>}

\* a key the listing must leave out
NotMetadata(k) ==
    \/ "_input.json" \in Range(KeyBasename[k])
    \/ "_output.json" \in Range(KeyBasename[k])
    \/ KeyBasename[k][1] = "amazon-bedrock-logs-permission-check"
    \/ KeyBasename[k] \notin MetadataNames

\* the keys of a sequence of listed objects
KeysOf(objects) == {objects[i].key : i \in DOMAIN objects}

\* the non-metadata keys the bucket holds under the prefixes of the scan
LeftOut ==
    {k \in Keys : /\ bucket[k] # 0
                  /\ KeyRegion[k] = CurrentRegion
                  /\ KeyHour[k] \in Range(state.scan_prefixes)
                  /\ NotMetadata(k)}

\* no non-metadata key is listed, selected as new, recorded in a manifest or
\* accounted in the metrics of the run or of a snapshot
NoTraceOfNonMetadata ==
    \A k \in Keys : NotMetadata(k) =>
        /\ k \notin KeysOf(state.objects)
        /\ k \notin KeysOf(state.new_objects)
        /\ k \notin DOMAIN state.current_manifest.processed
        /\ \A r \in AllRegions :
              manifests[r] # None => k \notin DOMAIN TheOne(manifests[r]).processed
        /\ KeyArn[k] \notin DOMAIN state.metrics.by_identity
        /\ \A d \in Days :
              snapshots[d] # None =>
                  KeyArn[k] \notin DOMAIN TheOne(snapshots[d]).metrics.by_identity

\* C30: a listed key whose basename contains _input.json or _output.json, is
\* the permission-check marker, or does not match the metadata pattern is
\* never selected as new, never parsed and never added to the manifest, and
\* each listing adds the number of such keys to objects_filtered.
C30_OnlyMetadataIngested ==
    /\ []NoTraceOfNonMetadata
    /\ [][(pc = "list_objects" /\ pc' # "list_objects") =>
             /\ state'.stats.objects_filtered
                   = state.stats.objects_filtered + Cardinality(LeftOut)
             /\ state'.stats.objects_listed - state'.stats.objects_filtered
                   = state.stats.objects_listed - state.stats.objects_filtered
                     + Len(state'.objects)]_vars

\* a run has listed the four non-metadata files next to a metadata file,
\* filtered all four and ingested the metadata file
C30_Witness ==
    /\ pc = "post_report"
    /\ \A k \in {"k1", "k5", "k6", "k7", "k8"} : bucket[k] # 0
    /\ state.stats.objects_filtered = 4
    /\ state.stats.objects_processed = 1
    /\ manifests["r1"] # None
    /\ DOMAIN TheOne(manifests["r1"]).processed = {"k1"}

\* the nodes of a region's iteration that follow plan_scan
AfterPlan == {"list_objects", "filter_new_objects", "ingest_objects", "update_manifest"}

\* the scan range plan_scan_node computes for the region in hand is empty:
\* its first hour lies after the last hour of the report day
EmptyScanRange ==
    /\ pc \in AfterPlan
    /\ ScanStartHour(state.current_manifest, run_config.force_reprocess, state.report_date)
           > EndHour(state.report_date)

AfterSave ==
    {"advance_region", "region_router", "load_snapshot", "refresh_pricing", "apply_pricing",
     "verify_results", "render_report", "write_snapshot", "append_csv", "post_report"}

\* C32: a manifest save is an unconditional overwrite: update_manifest always
\* completes and leaves exactly the saving invocation's pruned manifest as
\* the stored one, whatever has been stored since it loaded; so when two
\* invocations overlap, what one of them saved is lost.
C32_SaveOverwritesUnconditionally ==
    [][(peer' = peer /\ pc = "update_manifest" /\ pc' # pc) =>
           /\ pc' = "advance_region"
           /\ manifests'[CurrentRegion] = Some(state'.current_manifest)
           /\ \A k \in DOMAIN state'.current_manifest.processed :
                 /\ k \in DOMAIN state.current_manifest.processed
                 /\ state'.current_manifest.processed[k] = state.current_manifest.processed[k]]_vars

\* lost update: two invocations are under way, the suspended one has saved
\* an entry for k1 and a later checkpoint, and the manifest the running one
\* has just saved has neither
C32_Witness ==
    /\ pc = "advance_region"
    /\ peer.pc \in AfterSave
    /\ manifests["r1"] = Some(state.current_manifest)
    /\ "k1" \in DOMAIN peer.state.current_manifest.processed
    /\ "k1" \notin DOMAIN TheOne(manifests["r1"]).processed
    /\ TheOne(TheOne(manifests["r1"]).last_datehour)
          < TheOne(peer.state.current_manifest.last_datehour)

\* every mapping of before is in after, unchanged
MappingsKept(before, after) ==
    \A k \in DOMAIN before.model_id_map :
        k \in DOMAIN after.model_id_map /\ after.model_id_map[k] = before.model_id_map[k]

\* result is self.merge(other): self's mappings, and other's for the keys
\* self does not have
MergedMap(result, self, other) ==
    /\ DOMAIN result.model_id_map = DOMAIN self.model_id_map \cup DOMAIN other.model_id_map
    /\ MappingsKept(self, result)
    /\ \A k \in DOMAIN other.model_id_map \ DOMAIN self.model_id_map :
          result.model_id_map[k] = other.model_id_map[k]

\* C33: the normalized-to-original model map is first-write-wins: no
\* add_usage call and no merge changes a mapping that exists; add_usage adds
\* at most the mapping of its model id, and never an empty original; merge
\* takes from the other side only the keys self does not have.
C33_ModelMapFirstWriteWins ==
    /\ [](\A m \in {opA, opB, opC} : \A k \in DOMAIN m.model_id_map : m.model_id_map[k] # << >>)
    /\ [](merged # None =>
            LET res == TheOne(merged) IN
            /\ MergedMap(res.ab, opA, opB)
            /\ MergedMap(res.ba, opB, opA)
            /\ MergedMap(res.ab_c, res.ab, opC)
            /\ MappingsKept(opA, res.a_bc))
    /\ [][/\ MappingsKept(opA, opA') /\ MappingsKept(opB, opB') /\ MappingsKept(opC, opC')
          /\ \A k \in DOMAIN opA'.model_id_map \ DOMAIN opA.model_id_map :
                /\ k \in DOMAIN opA'.by_model
                /\ k \in DOMAIN opA.by_model => opA'.by_model[k] # opA.by_model[k]]_vars

\* both sides map m1, to different originals, one of them after two calls:
\* each merge keeps its receiver's mapping
C33_Witness ==
    /\ merged # None
    /\ <<"m1">> \in DOMAIN opA.model_id_map
    /\ <<"m1">> \in DOMAIN opB.model_id_map
    /\ opA.model_id_map[<<"m1">>] # opB.model_id_map[<<"m1">>]
    /\ opA.by_model[<<"m1">>].input_tokens = 2
    /\ TheOne(merged).ab.model_id_map # TheOne(merged).ba.model_id_map

\* the keys whose content parse_bedrock_records rejects
Unparsed == {k \in Keys : \E i \in DOMAIN KeyText[k] : ~KeyText[k][i].parses}

\* the number of records in the objects of the sequence
RecordsIn(objects) == SumSeq([i \in DOMAIN objects |-> Len(KeyText[objects[i].key])])

\* every stored entry is for an object of the bucket that parses, carries an
\* etag the object has had and an instant that has passed
StoredEntriesSound ==
    \A r \in AllRegions : manifests[r] # None =>
        \A k \in DOMAIN TheOne(manifests[r]).processed :
            LET entry == TheOne(manifests[r]).processed[k] IN
            /\ k \notin Unparsed
            /\ KeyRegion[k] = r
            /\ entry.etag >= 1 /\ entry.etag <= bucket[k]
            /\ \E t \in NowInit..now : entry.seen_at = IsoTimestamp(t)

\* C34: every entry of a manifest's processed map was written by a run that
\* listed the key with exactly the recorded etag, fetched it and went through
\* all of its records before recording it, with seen_at the clock of that
\* run's ingest step; an object whose parse failed is never recorded, and a
\* run in which a parse failed stores nothing.
C34_RecordedAfterIngested ==
    /\ []StoredEntriesSound
    /\ [][pc = "ingest_objects" /\ pc' # pc =>
            IF KeysOf(state.new_objects) \cap Unparsed # {}
            THEN pc' = "failed" /\ manifests' = manifests /\ snapshots' = snapshots
            ELSE /\ pc' = "update_manifest"
                 /\ DOMAIN state'.current_manifest.processed
                       = DOMAIN state.current_manifest.processed \cup KeysOf(state.new_objects)
                 /\ \A i \in DOMAIN state.new_objects :
                       state'.current_manifest.processed[state.new_objects[i].key]
                         = [etag |-> state.new_objects[i].etag, seen_at |-> IsoTimestamp(now)]
                 /\ \A k \in DOMAIN state.current_manifest.processed \ KeysOf(state.new_objects) :
                       state'.current_manifest.processed[k] = state.current_manifest.processed[k]
                 /\ \A i \in DOMAIN state.new_objects :
                       \E j \in DOMAIN state.objects : state.objects[j] = state.new_objects[i]
                 /\ state'.stats.objects_processed
                       = state.stats.objects_processed + Len(state.new_objects)
                 /\ state'.stats.records_parsed
                       = state.stats.records_parsed + RecordsIn(state.new_objects)]_vars

\* k1, overwritten since an earlier run recorded it, has been listed with
\* its second etag, ingested again and recorded with that etag
C34_Witness ==
    /\ pc = "advance_region"
    /\ runs > 1
    /\ bucket["k1"] = 2
    /\ manifests["r1"] # None
    /\ DOMAIN TheOne(manifests["r1"]).processed = {"k1"}
    /\ TheOne(manifests["r1"]).processed["k1"].etag = 2
    /\ state.stats.records_parsed = 1

\* a run has failed on k4 after it went through k1 and recorded it in
\* memory: the stored manifest has no entry
C34_FailedRunStoresNothing ==
    /\ pc = "failed"
    /\ bucket["k1"] # 0 /\ bucket["k4"] # 0
    /\ manifests["r1"] = None

\* the nodes of the region loop
LoopNodes ==
    {"region_router", "load_manifest", "plan_scan", "list_objects", "filter_new_objects",
     "ingest_objects", "update_manifest", "advance_region"}

\* the loop is at the given node for the i-th configured region
InRegion(node, i) ==
    /\ pc = node
    /\ i <= Len(Regions)
    /\ state.region_index = i - 1
    /\ state.current_region = Regions[i]

-----------------------------------------------------------------------------
(* A priced bucket on the run after the one that ingested it *)

\* the Metrics a later run of the day prices: nothing new ingested, the
\* snapshot of metrics loaded and merged into the run's own object
\* (load_snapshot_node: state["metrics"].merge(existing_metrics))
LaterRunMetrics(metrics) ==
    Merge(EmptyMetrics,
          TheOne(LoadMetricsFromSnapshot([metrics |-> MetricsToDict(metrics)])))

\* C36: pricing survives the snapshot round trip.  The snapshot keeps the
\* granular buckets under their normalized model id and not the
\* normalized-to-original map; for every raw model identifier x that was
\* recorded, get_pricing_model_key(normalize_model_id(x)) equals
\* get_pricing_model_key(x), and every granular bucket gets on a later run,
\* priced from the snapshot with the same table, the cost it got on the run
\* that ingested it.
C36_PricingSurvivesRoundTrip ==
    priced # None =>
        LET first == TheOne(priced).once.metrics
            later == ApplyPricing(LaterRunMetrics(first), TheOne(priced).rates,
                                  NoWarnings).metrics
        IN  /\ DOMAIN later.model_id_map = {}
            /\ DOMAIN later.by_usage_key = DOMAIN first.by_usage_key
            /\ \A q \in DOMAIN usage.recorded :
                  get_pricing_model_key(normalize_model_id(q[1]))
                     = get_pricing_model_key(q[1])
            /\ \A k \in DOMAIN first.by_usage_key :
                  later.by_usage_key[k].cost_usd = first.by_usage_key[k].cost_usd

-----------------------------------------------------------------------------
(* The aggregate in every dimension, in memory and read back from a snapshot *)

\* a modelId that is a version suffix and nothing else, ":0"
BareVersion == <<":", "0">>

\* A Metrics object fed with records, one of which may carry BareVersion.
NextBareVersion ==
    \/ \E region \in UsageRegions, identity \in UsageIdentities,
          original_model_id \in {PlainModel, OtherVersion, BareVersion} :
            RecordUsage(region, identity, original_model_id, <<1000, 500>>)
    \/ \E rates \in PricingTables :
          \E other_rates \in PricingTables \ {rates} : PriceCalls(rates, other_rates)

SpecBareVersion == Init /\ [][NextBareVersion]_vars

\* <<input, output>> of a token sum
InputOutput(tokens) == <<tokens[1], tokens[2]>>

\* the granular keys of m whose component at position pos is key
KeysWith(m, pos, key) == {k \in DOMAIN m.by_usage_key : k[pos] = key}

\* every entry of a dimension map holds the sum of the granular entries
\* carrying its key, and no granular key is missing from the map
DimensionFromGranular(m, map, pos) ==
    /\ \A key \in DOMAIN map :
          InputOutput(Tokens(map[key])) = InputOutput(SumTokens(m.by_usage_key, KeysWith(m, pos, key)))
    /\ \A k \in DOMAIN m.by_usage_key : k[pos] \in DOMAIN map

FullyConsistent(m) ==
    /\ InputOutput(Tokens(m.totals)) = InputOutput(SumTokens(m.by_region, DOMAIN m.by_region))
    /\ InputOutput(Tokens(m.totals)) = InputOutput(SumTokens(m.by_identity, DOMAIN m.by_identity))
    /\ InputOutput(Tokens(m.totals)) = InputOutput(SumTokens(m.by_model, DOMAIN m.by_model))
    /\ InputOutput(Tokens(m.totals)) = InputOutput(SumTokens(m.by_usage_key, DOMAIN m.by_usage_key))
    /\ DimensionFromGranular(m, m.by_region, 1)
    /\ DimensionFromGranular(m, m.by_identity, 2)
    /\ DimensionFromGranular(m, m.by_model, 3)

\* m priced, written to the snapshot and loaded by load_metrics_from_snapshot
Reloaded(m) ==
    TheOne(LoadMetricsFromSnapshot(
              [metrics |-> MetricsToDict(ApplyPricing(m, PricingYaml, NoWarnings).metrics)]))

\* C37: full aggregate consistency.  After any sequence of add_usage calls,
\* merges, and a write-then-load of the snapshot, the input and output
\* tokens of totals equal the sums over by_region, by_identity, by_model and
\* the granular map, every entry of the three dimension maps equals the sum
\* of the granular entries carrying its key, and every granular key's
\* region, identity and model are keys of the three maps.
C37_FullAggregateConsistency ==
    /\ \A m \in {opA, opB, opC, usage.metrics} :
          /\ FullyConsistent(m)
          /\ FullyConsistent(Reloaded(m))
          /\ FullyConsistent(Merge(opC, Reloaded(m)))
    /\ merged # None =>
          \A m \in {TheOne(merged).ab, TheOne(merged).ab_c, TheOne(merged).pab} :
              FullyConsistent(m) /\ FullyConsistent(Reloaded(m))
    /\ priced # None => FullyConsistent(LaterRunMetrics(TheOne(priced).once.metrics))

-----------------------------------------------------------------------------
(* The stored checkpoint over a sequence of runs *)

\* the hour the manifest stored for region r holds as last_datehour; -1
\* when no manifest is stored or it holds none
StoredCheckpoint(stored, r) ==
    IF stored[r] # None /\ TheOne(stored[r]).last_datehour # None
    THEN ParseDatehour(TheOne(TheOne(stored[r]).last_datehour))
    ELSE -1

\* C38: checkpoint monotonicity.  Over any sequence of completed runs whose
\* wall-clock times do not decrease, the last_datehour stored for a region
\* never moves to an earlier hour, whatever report dates and force flags the
\* runs use.
C38_CheckpointNeverMovesBack ==
    [][\A r \in AllRegions :
          StoredCheckpoint(manifests', r) >= StoredCheckpoint(manifests, r)]_vars

-----------------------------------------------------------------------------
(* Records dated outside the report day *)

\* timestamps that parse and lie outside the report day of the record loop:
\* the last instant before its start, its end, and an instant past its end
OutsideTimestamps ==
    {IsoTimestamp(ReportStart(DateOf(ParseDatehour(StartHour))) - 1),
     IsoTimestamp(ReportEnd(DateOf(ParseDatehour(StartHour)))),
     IsoTimestamp(OutOfWindowTs)}

\* records dated outside the report day, with and without structured token
\* counts
OutsideChoices ==
    {RawRec(timestamp, "arn:k1", count, count, None) :
        timestamp \in OutsideTimestamps, count \in {None, Some(3)}}

\* Objects of two records, one of them dated outside the report day, put
\* through the record loop; and runs on one region in which k2 arrives, an
\* object of a record of the day, one past the day and one without date.
NextWindow ==
    \/ \E outside \in OutsideChoices, other \in OtherChoices, swap \in BOOLEAN :
            IngestText(IF swap THEN other ELSE outside, IF swap THEN outside ELSE other)
    \/ Tick
    \/ Land("k2")
    \/ LoadConfigNode(FALSE, None)
    \/ Workflow

SpecWindow == Init /\ [][NextWindow]_vars

\* the timestamp of record parses and lies outside [start, end) of the day
OutsideDay(record, report_date) ==
    /\ parse_timestamp(record) # None
    /\ ~(ReportStart(report_date) <= TheOne(parse_timestamp(record))
         /\ TheOne(parse_timestamp(record)) < ReportEnd(report_date))

\* records_used <= records_parsed and records_parsed - records_used >=
\* records_skipped
CountsOrdered(stats, warnings) ==
    /\ stats.records_used <= stats.records_parsed
    /\ stats.records_parsed - stats.records_used >= warnings.records_skipped

\* the number of dated records of the objects that lie outside the report
\* day (outside = TRUE) or within it (outside = FALSE)
RECURSIVE DatedRecords(_, _, _)
DatedRecords(objects, report_date, outside) ==
    IF objects = << >> THEN 0
    ELSE Len(SelectSeq(KeyRecords[Head(objects).key],
                       LAMBDA r : OutsideDay(r, report_date) = outside
                                  /\ parse_timestamp(r) # None))
         + DatedRecords(Tail(objects), report_date, outside)

\* C39: a record whose timestamp parses but lies outside [report-day start,
\* report-day end) adds no usage, increments no warning and is not counted
\* in records_used: metrics, warnings and records_used come out as if the
\* object did not hold the record, which is still counted as parsed.  The
\* object holding it is recorded as processed in the manifest all the same.
\* records_used never exceeds records_parsed, and records_parsed minus
\* records_used is at least records_skipped.
C39_OutOfWindowRecordIgnored ==
    /\ [](ingest # None =>
            LET records == TheOne(ingest).records
                after == TheOne(ingest).after
                day == DateOf(ParseDatehour(StartHour))
                inside == SelectSeq(records, LAMBDA r : ~OutsideDay(r, day))
                others == IngestRecords(IngestStart, inside, "r1", day)
            IN  /\ after.metrics = others.metrics
                /\ after.warnings = others.warnings
                /\ after.stats.records_used = others.stats.records_used
                /\ after.stats.records_parsed = Len(records)
                /\ CountsOrdered(after.stats, after.warnings))
    /\ [](CountsOrdered(state.stats, state.warnings))
    /\ [][(pc = "ingest_objects" /\ pc' = "update_manifest") =>
            /\ \A i \in DOMAIN state.new_objects :
                  /\ state.new_objects[i].key \in DOMAIN state'.current_manifest.processed
                  /\ state'.current_manifest.processed[state.new_objects[i].key].etag
                        = state.new_objects[i].etag
            /\ state'.stats.records_used - state.stats.records_used
                  = DatedRecords(state.new_objects, state.report_date, FALSE)
            /\ state'.stats.records_parsed - state.stats.records_parsed
                  >= DatedRecords(state.new_objects, state.report_date, FALSE)
                       + DatedRecords(state.new_objects, state.report_date, TRUE)
            /\ state'.warnings.missing_token_counts = state.warnings.missing_token_counts
         ]_vars

\* an object whose first record is dated at the end of the report day and
\* carries no token counts has gone through the record loop, and a run has
\* ingested k2 and is about to save the manifest that records it
C39_Witness ==
    /\ ingest # None
    /\ TheOne(ingest).records[1].timestamp
          = IsoTimestamp(ReportEnd(DateOf(ParseDatehour(StartHour))))
    /\ TheOne(ingest).records[1].inputTokenCount = None
    /\ TheOne(ingest).records[1].outputTokenCount = None
    /\ TheOne(ingest).records[1].usage = None
    /\ TheOne(ingest).after.stats.records_parsed = 2
    /\ TheOne(ingest).after.stats.records_used = 1
    /\ pc = "update_manifest"
    /\ state.stats.records_parsed = 3
    /\ state.stats.records_used = 1
    /\ state.warnings.records_skipped = 1
    /\ "k2" \in DOMAIN state.current_manifest.processed

-----------------------------------------------------------------------------
(* The price table restricted to the models seen *)

\* A Metrics object fed with records of one region and identity, then
\* priced; and runs on one region in which k1 may arrive.
NextRefresh ==
    \/ \E original_model_id \in RecordedModels :
          RecordUsage("r1", "arn:k1", original_model_id, <<1000, 500>>)
    \/ \E rates \in PricingTables :
          \E other_rates \in PricingTables \ {rates} : PriceCalls(rates, other_rates)
    \/ Land("k1")
    \/ LoadConfigNode(FALSE, None)
    \/ Workflow

SpecRefresh == Init /\ [][NextRefresh]_vars

\* the model_ids refresh_pricing_node collects: for every by_model key the
\* original identifier when the map has one, else the key itself
ModelsSeen(metrics) ==
    {IF n \in DOMAIN metrics.model_id_map THEN metrics.model_id_map[n] ELSE n :
        n \in DOMAIN metrics.by_model}

\* the identifier apply_pricing looks the rate of granular key k up with
LookupId(metrics, k) ==
    IF k[3] \in DOMAIN metrics.model_id_map THEN metrics.model_id_map[k[3]] ELSE k[3]

\* pricing metrics with the table rates restricted to the models seen gives
\* every granular bucket the rate, and the object the costs and warnings,
\* the whole table gives
RestrictionKeepsRates(metrics, rates) ==
    LET restricted == FilterRates(rates, ModelsSeen(metrics))
    IN  /\ \A k \in DOMAIN metrics.by_usage_key :
              GetRate(restricted, LookupId(metrics, k), k[1])
                 = GetRate(rates, LookupId(metrics, k), k[1])
        /\ ApplyPricing(metrics, restricted, NoWarnings)
              = ApplyPricing(metrics, rates, NoWarnings)
        /\ ModelsSeen(metrics) # {} =>
              DOMAIN restricted
                 = DOMAIN rates \cap {get_pricing_model_key(m) : m \in ModelsSeen(metrics)}

\* C40: the pricing table refresh is scoped to the models seen, the original
\* identifier when the map has one, else the normalized id, and is skipped
\* when no model was seen: refresh_pricing leaves the provider as it is then,
\* and otherwise loads the entries of the pricing file whose key is the
\* pricing key of a model seen.  Restricting the table this way never
\* changes the rate apply_pricing resolves for a granular bucket of the run:
\* the run's costs and warnings are those the unrestricted table gives.
C40_RefreshScopedToModelsSeen ==
    /\ [][(pc = "refresh_pricing" /\ pc' = "apply_pricing") =>
            IF DOMAIN state.metrics.by_model = {}
            THEN pricing' = pricing
            ELSE /\ pricing' # None
                 /\ DOMAIN TheOne(pricing')
                       = DOMAIN PricingYaml
                           \cap {get_pricing_model_key(m) : m \in ModelsSeen(state.metrics)}
                 /\ \A k \in DOMAIN TheOne(pricing') : TheOne(pricing')[k] = PricingYaml[k]
         ]_vars
    /\ [][(pc = "apply_pricing" /\ pc' = "verify_results") =>
            LET whole == ApplyPricing(state.metrics, PricingYaml, state.warnings)
            IN  state'.metrics = whole.metrics /\ state'.warnings = whole.warnings]_vars
    /\ [](priced # None =>
            /\ RestrictionKeepsRates(usage.metrics, TheOne(priced).rates)
            /\ RestrictionKeepsRates(LaterRunMetrics(TheOne(priced).once.metrics),
                                     TheOne(priced).rates))

\* a plain and a us-profile model were recorded and priced with a table that
\* holds a rate for the us profile and one for a profile not seen, which the
\* restricted table drops; and a second run that found nothing new has refreshed the
\* table for the model of the snapshot, known by its normalized id only
C40_Witness ==
    /\ priced # None
    /\ ModelsSeen(usage.metrics) = {PlainModel, Profile("us")}
    /\ TheOne(priced).rates = LoadPricingYaml(ScopedProfiles)
    /\ DOMAIN TheOne(priced).rates = {<<"us", ".", "m1">>, <<"global", ".", "m1">>}
    /\ DOMAIN FilterRates(TheOne(priced).rates, ModelsSeen(usage.metrics))
          = {<<"us", ".", "m1">>}
    /\ TheOne(priced).once.metrics.totals.cost_usd > 0
    /\ pc = "apply_pricing"
    /\ runs = 2
    /\ state.stats.objects_processed = 0
    /\ ModelsSeen(state.metrics) = {<<"m1">>}
    /\ pricing # None

====
